---- MODULE Spec2Model ----
(***************************************************************************)
(* A model of the feed.ly content script (contents/social-post-blocker.tsx) *)
(* and of the background categorizer it talks to: the per-post processing  *)
(* pass (processPost), the observers that start passes, the cache of        *)
(* decisions keyed by fingerprint, the cover and its unmute button, and the *)
(* storage keys the popup writes.                                           *)
(*                                                                          *)
(* The script runs on one thread; every `await` is a suspension point, and  *)
(* one action of the model is one stretch of code between two suspension    *)
(* points.                                                                  *)
(***************************************************************************)
EXTENDS Integers, Sequences, FiniteSets, TLC

(***************************************************************************)
(* Strings.  A string is a sequence of one-character strings, so that       *)
(* toUpperCase, includes and === are computed and not assumed.              *)
(***************************************************************************)
UpperOf ==
  [a |-> "A", b |-> "B", c |-> "C", d |-> "D", e |-> "E", f |-> "F", g |-> "G", h |-> "H", i |-> "I", j |-> "J", k |-> "K", l |-> "L", m |-> "M", n |-> "N", o |-> "O", p |-> "P", q |-> "Q", r |-> "R", s |-> "S", t |-> "T", u |-> "U", v |-> "V", w |-> "W", x |-> "X", y |-> "Y", z |-> "Z"]

\* String.prototype.toUpperCase, one character
UpChar(c) == IF c \in DOMAIN UpperOf THEN UpperOf[c] ELSE c

\* String.prototype.toUpperCase
ToUpper(s) == [i \in 1..Len(s) |-> UpChar(s[i])]

\* String.prototype.includes: pat occurs in s as a substring
StrIncludes(s, pat) ==
  \E i \in 1..(Len(s) + 1) :
    /\ i + Len(pat) - 1 <= Len(s)
    /\ SubSeq(s, i, i + Len(pat) - 1) = pat

\* Array.prototype.includes
ArrIncludes(arr, x) == \E i \in 1..Len(arr) : arr[i] = x

\* Array.prototype.map(cat => cat.toUpperCase())
MapUpper(arr) == [i \in 1..Len(arr) |-> ToUpper(arr[i])]

W_POLITICS == <<"P", "O", "L", "I", "T", "I", "C", "S">>
W_SPORTS == <<"S", "P", "O", "R", "T", "S">>
W_SPORT == <<"S", "P", "O", "R", "T">>
W_TECH == <<"T", "E", "C", "H">>
W_AI == <<"A", "I">>
W_ERROR == <<"E", "R", "R", "O", "R">>
W_OTHER == <<"O", "T", "H", "E", "R">>
W_BUSINESS == <<"B", "U", "S", "I", "N", "E", "S", "S">>
W_PROMOTIONAL == <<"P", "R", "O", "M", "O", "T", "I", "O", "N", "A", "L">>
W_MEME == <<"M", "E", "M", "E">>
w_politics == <<"p", "o", "l", "i", "t", "i", "c", "s">>
w_esport == <<"e", "s", "p", "o", "r", "t">>
w_html == <<"h", "t", "m", "l">>

(***************************************************************************)
(* The decision of processPost: normalisation of the returned categories    *)
(* and the exclude match.                                                   *)
(***************************************************************************)
\* the fixed synonym map, in the order Object.entries walks it
categoryVariations ==
  << <<<<"P", "O", "L", "I", "T", "I", "C">>, W_POLITICS>>,
     <<<<"P", "O", "L", "I", "T", "I", "C", "A", "L">>, W_POLITICS>>,
     <<<<"P", "O", "L", "I", "C", "Y">>, W_POLITICS>>,
     <<<<"P", "O", "L", "I", "T", "I", "C", "I", "A", "N">>, W_POLITICS>>,
     <<<<"G", "O", "V", "E", "R", "N", "M", "E", "N", "T">>, W_POLITICS>>,
     <<<<"E", "L", "E", "C", "T", "I", "O", "N">>, W_POLITICS>>,
     <<<<"S", "P", "O", "R", "T">>, W_SPORTS>>,
     <<<<"A", "T", "H", "L", "E", "T", "I", "C">>, W_SPORTS>>,
     <<<<"T", "E", "C", "H", "N", "O", "L", "O", "G", "Y">>, W_TECH>>,
     <<<<"A", "R", "T", "I", "F", "I", "C", "I", "A", "L", " ", "I", "N", "T", "E", "L", "L", "I", "G", "E", "N", "C", "E">>, W_AI>>,
     <<<<"M", "A", "C", "H", "I", "N", "E", " ", "L", "E", "A", "R", "N", "I", "N", "G">>, W_AI>>,
     <<<<"M", "L">>, W_AI>>,
     <<<<"B", "U", "S", "I", "N", "E", "S", "S", " ", "N", "E", "W", "S">>, W_BUSINESS>>,
     <<<<"E", "N", "T", "R", "E", "P", "R", "E", "N", "E", "U", "R", "S", "H", "I", "P">>, W_BUSINESS>>,
     <<<<"S", "T", "A", "R", "T", "U", "P">>, W_BUSINESS>>,
     <<<<"A", "D", "V", "E", "R", "T", "I", "S", "E", "M", "E", "N", "T">>, W_PROMOTIONAL>>,
     <<<<"S", "P", "O", "N", "S", "O", "R", "E", "D">>, W_PROMOTIONAL>>,
     <<<<"S", "E", "L", "L", "I", "N", "G">>, W_PROMOTIONAL>>,
     <<<<"P", "R", "O", "D", "U", "C", "T">>, W_PROMOTIONAL>>,
     <<<<"H", "U", "M", "O", "R">>, W_MEME>>,
     <<<<"F", "U", "N", "N", "Y">>, W_MEME>>,
     <<<<"J", "O", "K", "E">>, W_MEME>> >>

\* the loop over Object.entries(categoryVariations): the standard form is
\* pushed when it is not yet in the list and some returned category
\* contains the pattern
RECURSIVE EnhanceFrom(_, _, _)
EnhanceFrom(k, categories, enhanced) ==
  IF k > Len(categoryVariations) THEN enhanced
  ELSE LET pattern  == categoryVariations[k][1]
           category == categoryVariations[k][2]
           hasPattern == \E i \in 1..Len(categories) :
                           StrIncludes(ToUpper(categories[i]), pattern)
       IN  IF ArrIncludes(enhanced, category)
             THEN EnhanceFrom(k + 1, categories, enhanced)
             ELSE IF hasPattern
               THEN EnhanceFrom(k + 1, categories, Append(enhanced, category))
               ELSE EnhanceFrom(k + 1, categories, enhanced)

\* enhancedCategories of a response's categories
enhancedCategories(respCategories) ==
  LET categories == MapUpper(respCategories)
  IN  EnhanceFrom(1, categories, categories)

\* a match by String.prototype.includes in place of ===
isMatchBySubstring(excludeCategory, enhanced) ==
  \E i \in 1..Len(enhanced) :
    StrIncludes(ToUpper(enhanced[i]), ToUpper(excludeCategory))

\* isMatch of one exclude entry: some category equals it after upper-casing
isMatch(excludeCategory, enhanced) ==
  \E i \in 1..Len(enhanced) : ToUpper(enhanced[i]) = ToUpper(excludeCategory)

\* exclude.some(...): the walk stops at the first entry that matches, and
\* only entries the walk visits can be pushed to matchingExcludeCategories
RECURSIVE SomeFrom(_, _, _)
SomeFrom(k, exclude, enhanced) ==
  IF k > Len(exclude) THEN [shouldBlock |-> FALSE, matched |-> <<>>]
  ELSE IF isMatch(exclude[k], enhanced)
         THEN [shouldBlock |-> TRUE, matched |-> <<ToUpper(exclude[k])>>]
         ELSE SomeFrom(k + 1, exclude, enhanced)

\* shouldBlock of a pass, from the user categories it read
shouldBlock(userCategories, enhanced) ==
  SomeFrom(1, userCategories.exclude, enhanced).shouldBlock

\* matchingExcludeCategories of a pass
matchingExcludeCategories(userCategories, enhanced) ==
  SomeFrom(1, userCategories.exclude, enhanced).matched

\* hasFilteredContent: a category is an exclude entry as written, or
\* contains one after upper-casing
hasFilteredContent(userCategories, cats) ==
  \E i \in 1..Len(cats) :
    \/ ArrIncludes(userCategories.exclude, cats[i])
    \/ \E j \in 1..Len(userCategories.exclude) :
         StrIncludes(ToUpper(cats[i]), ToUpper(userCategories.exclude[j]))

\* the status a pass shows for a decision
StatusOf(userCategories, cats, block) ==
  IF block THEN "blocked"
  ELSE IF hasFilteredContent(userCategories, cats) THEN "filtered"
  ELSE "processed"

(***************************************************************************)
(* The background handler "categorize-post".                                *)
(***************************************************************************)
\* what can happen to one remote categorization
RemoteOutcomes == {"ok", "nokey", "http", "parse"}

\* the outcomes categorizeWithGPT4 treats as a failure of the remote call
RemoteFailures == {"nokey", "http", "parse"}

\* categorizeWithGPT4: the categories of its result.  A missing API key, an
\* HTTP error and unparsable model output are all caught and answered with
\* the category ERROR
categorizeWithGPT4(outcome, modelCategories) ==
  IF outcome = "ok" THEN MapUpper(modelCategories) ELSE <<W_ERROR>>

\* the handler: no text is answered with OTHER and no remote call
handler(hasText, outcome, modelCategories) ==
  IF ~hasText THEN <<W_OTHER>>
  ELSE categorizeWithGPT4(outcome, modelCategories)

\* what sendToBackground can do for the content script: deliver the
\* handler's answer, reject, resolve with nothing, resolve with an object
\* that has no categories, or with categories that are not an array
TransportOutcomes == {"delivered", "throws", "undefined", "nocats", "badcats"}

(***************************************************************************)
(* The page.  A tweet is a cellInnerDiv (c1) holding an article (a1): both  *)
(* match FEED_SELECTORS.TWITTER.POST.  c2 is a cell without an article, and *)
(* c3 to c6 are further such cells that repeat the text of c2.  On LinkedIn *)
(* c1 is a feed-shared-update-v2 and a1 the update-components-actor inside  *)
(* it.                                                                      *)
(***************************************************************************)
Posts == {"c1", "a1", "c2", "c3", "c4", "c5", "c6"}

\* feed.querySelectorAll(POST): the post elements in document order
PostOrder == <<"c1", "a1", "c2", "c3", "c4", "c5", "c6">>

\* the post elements of p's subtree that can hold an indicator or a cover,
\* in the document order querySelector walks: what p's descendants hold
\* comes before what was appended to p itself
Subtree(p) == IF p = "c1" THEN <<"a1", "c1">> ELSE <<p>>

\* post elements that are proper descendants of n: n.querySelectorAll(POST)
Descendants(n) == IF n = "c1" THEN {"a1"} ELSE {}

\* the post's scroll position is that of its cell
CellOf(p) == IF p = "a1" THEN "c1" ELSE p

Cells == {"c1", "c2"}

\* a feed of six cells
Feed == {"c1", "c2", "c3", "c4", "c5", "c6"}

Platforms == {"TWITTER", "LINKEDIN"}

\* findBestOverlayTarget: closest cellInnerDiv on Twitter, closest
\* feed-shared-update-v2 on LinkedIn; the actor block a1 of a LinkedIn
\* update has the update as its closest such ancestor
findBestOverlayTarget(p) == CellOf(p)

\* whether processPost extracts a non-empty text: a LinkedIn actor block
\* holds no description element
HasText(pl, p) == ~(pl = "LINKEDIN" /\ p = "a1")

\* createPostHash as processPost calls it, with author name and text: cell
\* and article of a tweet hold the same User-Name and tweetText
Fingerprint(pl, p) ==
  IF p \notin {"c1", "a1"} THEN "h2"
  ELSE IF pl = "LINKEDIN" /\ p = "a1" THEN "h3"
  ELSE "h1"

\* createPostHash({ text: post.textContent }) as reprocessVisiblePosts
\* calls it, without an author: the key of processPost only for a post
\* with no author name whose text is the whole textContent (c2)
ScanHash(pl, p) == IF p \notin {"c1", "a1"} THEN "h2" ELSE "none"

Hashes == {"h1", "h2", "h3"}

\* the categories the model assigns to the text behind a fingerprint
ModelCategories(h) ==
  IF h = "h1" THEN <<w_politics>>
  ELSE IF h = "h2" THEN <<W_POLITICS, W_SPORTS>>
  ELSE <<W_TECH>>

\* the values of user-categories the popup saves in this model
EmptyCategories == [include |-> <<>>, exclude |-> <<>>]
CategoryChoices ==
  { EmptyCategories,
    [include |-> <<>>, exclude |-> <<W_POLITICS>>],
    [include |-> <<W_SPORTS>>, exclude |-> <<W_POLITICS>>],
    [include |-> <<>>, exclude |-> <<W_SPORT>>] }

InitialCategories == [include |-> <<>>, exclude |-> <<W_POLITICS>>]

(***************************************************************************)
(* Bounds                                                                   *)
(***************************************************************************)
MaxTime == 1
MaxCalls == 2
MaxInvocations == 2
MaxChanges == 1
MaxUnmutes == 2

\* the polling timer hands over at most this many posts per tick
PollCap == 5

(***************************************************************************)
(* State                                                                    *)
(***************************************************************************)
VARIABLES
  decision,             \* one decision of processPost: its inputs and results
  everUnmuted,          \* the fingerprints unmute has written so far
  reprocessed,          \* the posts the last category change found visible,
                        \* cached, showing a result and not in flight
  platform,             \* TWITTER or LINKEDIN, from the hostname
  results,              \* h -> the categorization-result message handled for h and where processPost took its response from
  debugObj,             \* window.__feedlyDebug and its categorizeCache
  listener,             \* listener.ts: isInitialized, the onMessage listeners, the runs of registerDefaultHandlers
  sending,              \* one call of safeSendToBackground: what sendToBackground did and what the caller got
  hashing,              \* two post data and the fingerprints createPostHash gave them
  stored,               \* storage key "user-categories" as it is stored,
                        \* whatever its shape
  initPc,               \* the position of initializeExtension
  resolved,             \* what verifyUserCategories has resolved with
  viewport,             \* the posts of the page that are in the viewport
  categoriesUpdatedDirty, \* the module variable of that name
  missed,               \* the posts the last category change found cached
                        \* and outside the viewport
  batch,                \* the startIndex of the processBatch call that is
                        \* waiting for its timer, -1 when none is
  now,                  \* Date.now()
  enabled,              \* storage key "enabled": "unset", "true" or "false"
  userCategories,       \* storage key "user-categories"
  unmutedPosts,         \* storage key "unmutedPosts"
  processedPosts,       \* the cache: fingerprint -> entry or NoEntry
  lastCategoriesUpdate, \* the module variable of that name
  categoriesDirty,      \* the module variable of that name
  marker,               \* p -> the element carries data-feedlyprocessing
  indicator,            \* p -> the indicator appended to p
  covers,               \* p -> the covers appended to p
  page,                 \* the posts in the document, all in the viewport
  calls,                \* p -> processPost calls awaiting the enabled read
  passes,               \* p -> the passes on p that are past the marker check
  coverTasks,           \* applyPostCover calls awaiting the unmutedPosts read
  unmuteTasks,          \* unmute calls between their read and their write
  watchQueue,           \* storage change events not yet delivered
  invocations,          \* processPost calls made so far
  changes,              \* saves of user-categories so far
  clicks,               \* clicks on a cover's Show button so far
  failed                \* p -> a pass on p failed and nothing touched p since

vars == << decision, everUnmuted, reprocessed, platform, results, debugObj, listener, sending, hashing, stored, initPc, resolved, viewport, categoriesUpdatedDirty, missed, batch, now, enabled, userCategories, unmutedPosts,
           processedPosts, lastCategoriesUpdate, categoriesDirty, marker,
           indicator, covers, page, calls, passes, coverTasks,
           unmuteTasks, watchQueue, invocations, changes, clicks, failed >>

NoEntry == [present |-> FALSE]

\* a value of "user-categories" in storage: include and exclude are arrays
StoredArrays(include, exclude) ==
  [kind |-> "object",
   include |-> [kind |-> "array", items |-> include],
   exclude |-> [kind |-> "array", items |-> exclude]]

\* verifyUserCategories has not returned
Unresolved == [via |-> "none", include |-> <<>>, exclude |-> <<>>]

\* initializeExtension has run, and observation has started
Started ==
  /\ stored = StoredArrays(<<>>, <<>>)
  /\ initPc = "observing"
  /\ resolved = Unresolved
NoIndicator == [status |-> "none", fade |-> FALSE, unmuting |-> FALSE]
FinalStatuses == {"processed", "filtered", "blocked"}

(***************************************************************************)
(* DOM helpers                                                              *)
(***************************************************************************)
\* the place of the first indicator in p's subtree, "none" without one:
\* container.querySelector(".feed-ly-status-indicator")
RECURSIVE FirstFrom(_, _, _)
FirstFrom(k, seq, holds) ==
  IF k > Len(seq) THEN "none"
  ELSE IF holds[seq[k]] THEN seq[k]
  ELSE FirstFrom(k + 1, seq, holds)

existingIndicator(ind, p) ==
  FirstFrom(1, Subtree(p), [q \in Posts |-> ind[q].status # "none"])

\* a lookup that finds no cover
NoCoverFound(cov, p) == "none"

\* container.querySelector(".feed-ly-cover")
existingCover(cov, p) ==
  FirstFrom(1, Subtree(p), [q \in Posts |-> cov[q] # <<>>])

\* addStatusIndicator: every indicator of the subtree but the first is
\* removed; the first takes the new status (it stays the same element, so a
\* removal timer set on it stays pending); without one a new indicator is
\* appended to the container
addStatusIndicator(ind, p, status) ==
  LET first == existingIndicator(ind, p)
  IN  IF first = "none"
        THEN [ind EXCEPT ![p] = [status |-> status, fade |-> FALSE,
                                 unmuting |-> FALSE]]
        ELSE [q \in Posts |->
                IF q = first THEN [ind[q] EXCEPT !.status = status]
                ELSE IF \E i \in 1..Len(Subtree(p)) : Subtree(p)[i] = q
                  THEN NoIndicator
                  ELSE ind[q]]

\* removeStatusIndicator: the first indicator of the subtree gets the class
\* feed-ly-unmuting, which hides it, and a timer that removes it after
\* 400 ms if it is a child of the container itself
removeStatusIndicator(ind, p) ==
  LET first == existingIndicator(ind, p)
  IN  IF first = "none" THEN ind
      ELSE IF first = p
        THEN [ind EXCEPT ![p].fade = TRUE, ![p].unmuting = TRUE]
        ELSE [ind EXCEPT ![first].unmuting = TRUE]

\* removeProcessingAttribute
removeProcessingAttribute(mk, p) == [mk EXCEPT ![p] = FALSE]

\* removePostCover: the first cover of the subtree is removed
removePostCover(cov, t) ==
  LET first == existingCover(cov, t)
  IN  IF first = "none" THEN cov ELSE [cov EXCEPT ![first] = Tail(cov[first])]

\* a skip rule that looks at the marker only
UnmarkedOnly(p) == ~marker[p]

\* the skip rule of the observers
Eligible(p) == existingIndicator(indicator, p) = "none" /\ ~marker[p]

(***************************************************************************)
(* Initial state: the content script has loaded, observation has started,   *)
(* nothing is cached and no post has been handed over yet.                  *)
(***************************************************************************)
NoCall == [early |-> 0, late |-> 0]

\* Date.now() never goes back: a reading is the last one or a later one
Clock == {t \in now..(now + 1) : t <= MaxTime}

\* no post data is being fingerprinted
NoHashing == [state |-> "idle"]

\* no call of safeSendToBackground is under way
NoSending == [state |-> "idle"]

\* listener.ts after the first stretch of initializeExtension (line 1590):
\* one call of initializeMessageListener, one listener, one registration
\* of the default handlers
ListenerOnce ==
  [isInitialized |-> TRUE, registered |-> 1, defaults |-> 1, calls |-> 1,
   resets |-> 0]

\* an entry of categorizeCache
NoCacheEntry == [present |-> FALSE, categories |-> <<>>]

\* window.__feedlyDebug before initDebugUtils has run
NoDebug ==
  [defined |-> FALSE, hasCache |-> FALSE,
   cache |-> [h \in {"h1", "h2", "h3"} |-> NoCacheEntry]]

\* lines 1840-1843: initDebugUtils assigns a new object with the debug
\* functions; categorizeCache is none of its properties
DebugNoCache == [NoDebug EXCEPT !.defined = TRUE]

\* no categorization-result message was handled and no response taken
NoResults ==
  [h \in {"h1", "h2", "h3"} |->
     [delivered |-> FALSE, categories |-> <<>>, source |-> "none"]]

\* no decision is being followed
NoDecision == [done |-> FALSE, uc |-> EmptyCategories, response |-> <<>>]

InitScript ==
  /\ everUnmuted = {}
  /\ results = NoResults
  /\ debugObj = DebugNoCache
  /\ listener = ListenerOnce
  /\ sending = NoSending
  /\ hashing = NoHashing
  /\ reprocessed = {}
  /\ platform \in Platforms
  /\ Started
  /\ now = 0
  /\ enabled \in {"unset", "true"}
  /\ userCategories = InitialCategories
  /\ unmutedPosts = <<>>
  /\ processedPosts = [h \in Hashes |-> NoEntry]
  /\ lastCategoriesUpdate = 0
  /\ categoriesDirty = FALSE
  /\ marker = [p \in Posts |-> FALSE]
  /\ indicator = [p \in Posts |-> NoIndicator]
  /\ covers = [p \in Posts |-> <<>>]
  /\ page = {"c1", "a1"}
  /\ viewport = page
  /\ categoriesUpdatedDirty = FALSE
  /\ missed = {}
  /\ batch = -1
  /\ calls = [p \in Posts |-> NoCall]
  /\ passes = [p \in Posts |-> <<>>]
  /\ coverTasks = {}
  /\ unmuteTasks = {}
  /\ watchQueue = 0
  /\ invocations = 0
  /\ changes = 0
  /\ clicks = 0
  /\ failed = [p \in Posts |-> FALSE]

Init == InitScript /\ decision = NoDecision

(***************************************************************************)
(* Calling processPost.  The call runs to its first await, the read of      *)
(* "enabled", and is pending from then on.                                  *)
(***************************************************************************)
\* the calls of one handler, for the set S of posts it hands over: a call
\* made while a pass on the element holds the marker is a late one
CallsAfter(S) ==
  [p \in Posts |->
     IF p \in S
       THEN IF passes[p] # <<>>
              THEN [calls[p] EXCEPT !.late = @ + 1]
              ELSE [calls[p] EXCEPT !.early = @ + 1]
       ELSE calls[p]]

Pending(p) == calls[p].early + calls[p].late

\* the bounds of the model on the calls of one handler
Room(S) ==
  /\ invocations + Cardinality(S) <= MaxInvocations
  /\ \A p \in S : Pending(p) < MaxCalls

\* the MutationObserver callback for one childList record whose added node
\* is n, or one attributes record on n (Twitter only): on Twitter a node
\* that is a post is handed over itself, in every other case the posts
\* inside it are; each only if it passes the skip rule
ObserverTargets(n, type) ==
  IF type = "attributes" /\ ~Eligible(n) THEN {}
  ELSE IF platform = "TWITTER"
    THEN {p \in {n} : Eligible(p)}
    ELSE {p \in Descendants(n) \cap page : Eligible(p)}

Observer(n, type) ==
  /\ n \in page
  /\ type = "attributes" => platform = "TWITTER"
  /\ LET S == ObserverTargets(n, type)
     IN  /\ S # {}
         /\ Room(S)
         /\ calls' = CallsAfter(S)
         /\ invocations' = invocations + Cardinality(S)
         /\ failed' = [p \in Posts |-> IF p = n \/ p \in S THEN FALSE ELSE failed[p]]
  /\ UNCHANGED << decision, everUnmuted, reprocessed, platform, results, debugObj, listener, sending, hashing, stored, initPc, resolved, viewport, categoriesUpdatedDirty, missed, batch, now, enabled, userCategories, unmutedPosts,
                  processedPosts, lastCategoriesUpdate, categoriesDirty,
                  marker, indicator, covers, page, passes, coverTasks,
                  unmuteTasks, watchQueue, changes, clicks >>

\* the posts the polling timer hands over in one tick: the first PollCap
\* posts in document order that pass the skip rule
RECURSIVE PollFrom(_, _)
PollFrom(k, count) ==
  IF k > Len(PostOrder) \/ count >= PollCap THEN {}
  ELSE IF PostOrder[k] \in page /\ Eligible(PostOrder[k])
    THEN {PostOrder[k]} \cup PollFrom(k + 1, count + 1)
    ELSE PollFrom(k + 1, count)

PollTargets == PollFrom(1, 0)

\* one tick of the setInterval of startObserving, which runs on Twitter only
PollTick ==
  /\ platform = "TWITTER"
  /\ PollTargets # {}
  /\ Room(PollTargets)
  /\ calls' = CallsAfter(PollTargets)
  /\ invocations' = invocations + Cardinality(PollTargets)
  /\ UNCHANGED << decision, everUnmuted, reprocessed, platform, results, debugObj, listener, sending, hashing, stored, initPc, resolved, viewport, categoriesUpdatedDirty, missed, batch, now, enabled, userCategories, unmutedPosts,
                  processedPosts, lastCategoriesUpdate, categoriesDirty,
                  marker, indicator, covers, page, passes, coverTasks,
                  unmuteTasks, watchQueue, changes, clicks, failed >>

\* the posts reprocessVisiblePosts hands over: every post in the viewport
VisiblePosts == viewport

\* reprocessVisiblePosts: the cache entry under the text-only hash of each
\* visible post is deleted
reprocessVisiblePosts(cache) ==
  [h \in Hashes |->
     IF \E p \in VisiblePosts : ScanHash(platform, p) = h
       THEN NoEntry ELSE cache[h]]

\* the post has a cached decision
Cached(p) == processedPosts[Fingerprint(platform, p)].present

\* the post shows a result: blocked, filtered or processed
ShowsResult(p) ==
  /\ existingIndicator(indicator, p) # "none"
  /\ indicator[existingIndicator(indicator, p)].status \in FinalStatuses

\* the post is in flight: it is marked, or a call on it is pending
InFlight(p) == marker[p] \/ passes[p] # <<>> \/ Pending(p) > 0

\* the storage.watch callback of "user-categories", run at time t
WatchFire(t) ==
  /\ watchQueue > 0
  /\ t \in Clock
  /\ \A p \in VisiblePosts : Pending(p) < MaxCalls
  /\ watchQueue' = watchQueue - 1
  /\ reprocessed' = {p \in VisiblePosts :
                       Cached(p) /\ ShowsResult(p) /\ ~InFlight(p)}
  /\ now' = t
  /\ categoriesDirty' = TRUE
  /\ lastCategoriesUpdate' = t
  /\ processedPosts' = reprocessVisiblePosts(processedPosts)
  /\ calls' = CallsAfter(VisiblePosts)
  /\ failed' = [p \in Posts |-> FALSE]
  /\ missed' = {p \in page \ VisiblePosts : Cached(p)}
  /\ UNCHANGED << decision, everUnmuted, platform, results, debugObj, listener, sending, hashing, stored, initPc, resolved, viewport, categoriesUpdatedDirty, batch, enabled, userCategories, unmutedPosts,
                  marker, indicator, covers, page, passes, coverTasks,
                  unmuteTasks, invocations, changes, clicks >>

(***************************************************************************)
(* processPost                                                              *)
(***************************************************************************)
NoCategories == [include |-> << <<"-">> >>, exclude |-> << <<"-">> >>]
NoResult == [categories |-> <<>>, matched |-> <<>>, shouldBlock |-> FALSE,
             processedAt |-> 0]

NewPass(late) ==
  [pc |-> "categories", late |-> late, uc |-> NoCategories,
   res |-> NoResult, status |-> "none", hit |-> FALSE, remote |-> FALSE]

\* a processPost that never looks at the marker
NoMarkerCheck(p) == FALSE

\* lines 801-804: the check of the in-flight marker
MarkerBlocks(p) == marker[p]

\* lines 794-822: the read of "enabled" resolves (or rejects); a disabled
\* filter or a marked element ends the call; otherwise the element is
\* marked, gets the processing indicator, and the pass goes on to the read
\* of "user-categories"
Enter(p, tag, readOk) ==
  /\ calls[p][tag] > 0
  /\ calls' = [calls EXCEPT ![p][tag] = @ - 1]
  /\ IF readOk /\ enabled = "true" /\ ~MarkerBlocks(p)
       THEN /\ marker' = [marker EXCEPT ![p] = TRUE]
            /\ indicator' = addStatusIndicator(indicator, p, "processing")
            /\ passes' = [passes EXCEPT ![p] = Append(@, NewPass(tag = "late"))]
       ELSE UNCHANGED << marker, indicator, passes >>
  /\ UNCHANGED << decision, everUnmuted, reprocessed, platform, results, debugObj, listener, sending, hashing, stored, initPc, resolved, viewport, categoriesUpdatedDirty, missed, batch, now, enabled, userCategories, unmutedPosts,
                  processedPosts, lastCategoriesUpdate, categoriesDirty,
                  covers, page, coverTasks, unmuteTasks, watchQueue,
                  invocations, changes, clicks, failed >>

\* the pass i on p without it
Without(seq, i) == SubSeq(seq, 1, i - 1) \o SubSeq(seq, i + 1, Len(seq))

\* a cover that is removed takes the unmute closures bound to it along
Detach(tasks, cov, t) ==
  LET first == existingCover(cov, t)
  IN  {IF u.target = first THEN [u EXCEPT !.live = FALSE] ELSE u : u \in tasks}

\* a staleness check that takes every entry for stale
AlwaysStale(entry) == TRUE

\* the entry is stale: processed before the last category update
IsStale(entry) == entry.processedAt < lastCategoriesUpdate

\* lines 884-1067: the read of "user-categories" resolves.
\*  - a rejected read throws out of processPost (no try encloses it);
\*  - an empty exclude list returns;
\*  - a cover inside the container returns;
\*  - a fresh cache entry is used: a decision not to block removes the
\*    cover of the overlay target at once; the indicator follows after the
\*    minimum dwell;
\*  - a stale entry is deleted, and it or a miss sends the request.
ReadCategories(p, i, readOk) ==
  /\ i \in 1..Len(passes[p])
  /\ passes[p][i].pc = "categories"
  /\ LET h     == Fingerprint(platform, p)
         entry == processedPosts[h]
         t     == findBestOverlayTarget(p)
     IN
     IF ~readOk \/ Len(userCategories.exclude) = 0
          \/ existingCover(covers, p) # "none"
       THEN /\ passes' = [passes EXCEPT ![p] = Without(@, i)]
            /\ UNCHANGED << processedPosts, covers, unmuteTasks >>
     ELSE IF entry.present /\ ~IsStale(entry)
       THEN /\ passes' = [passes EXCEPT ![p][i] =
                 [@ EXCEPT !.pc = "dwell", !.uc = userCategories, !.hit = TRUE,
                           !.res = [categories |-> entry.categories,
                                    matched |-> entry.matched,
                                    shouldBlock |-> entry.shouldBlock,
                                    processedAt |-> entry.processedAt],
                           !.status = StatusOf(userCategories, entry.categories,
                                               entry.shouldBlock)]]
            /\ covers' = IF entry.shouldBlock THEN covers
                         ELSE removePostCover(covers, t)
            /\ unmuteTasks' = IF entry.shouldBlock THEN unmuteTasks
                              ELSE Detach(unmuteTasks, covers, t)
            /\ UNCHANGED processedPosts
     ELSE /\ processedPosts' = [processedPosts EXCEPT ![h] = NoEntry]
          /\ passes' = [passes EXCEPT ![p][i] =
               [@ EXCEPT !.pc = "response", !.uc = userCategories]]
          /\ UNCHANGED << covers, unmuteTasks >>
  /\ UNCHANGED << decision, everUnmuted, reprocessed, platform, results, debugObj, listener, sending, hashing, stored, initPc, resolved, viewport, categoriesUpdatedDirty, missed, batch, now, enabled, userCategories, unmutedPosts,
                  lastCategoriesUpdate, categoriesDirty, marker, indicator,
                  page, calls, coverTasks, watchQueue, invocations,
                  changes, clicks, failed >>

\* lines 1137-1187 applied to the answer of the background, for each text and
\* each outcome of the remote call
Enhanced ==
  [hasText \in BOOLEAN |-> [h \in Hashes |-> [o \in RemoteOutcomes |->
     enhancedCategories(handler(hasText, o, ModelCategories(h)))]]]

\* lines 1084-1212 and 1332-1343: the categorization request settles.
\*  - a rejected request, no response and a response without categories end
\*    the pass in the inner handler; categories that are no array make
\*    response.categories.map throw into the outer handler: both clear the
\*    indicator and the marker;
\*  - otherwise the decision is computed from the categories read at the
\*    start of the pass and cached with the current time; a decision not to
\*    block removes the cover of the overlay target at once; the indicator
\*    follows after the minimum dwell.
Response(p, i, transport, outcome, at) ==
  /\ i \in 1..Len(passes[p])
  /\ at \in Clock
  /\ passes[p][i].pc = "response"
  /\ LET h  == Fingerprint(platform, p)
         t  == findBestOverlayTarget(p)
         uc == passes[p][i].uc
         enhanced == Enhanced[HasText(platform, p)][h][outcome]
         block    == shouldBlock(uc, enhanced)
         matched  == matchingExcludeCategories(uc, enhanced)
     IN
     IF transport # "delivered"
       THEN /\ indicator' = removeStatusIndicator(indicator, p)
            /\ marker' = removeProcessingAttribute(marker, p)
            /\ passes' = [passes EXCEPT ![p] = Without(@, i)]
            /\ failed' = [failed EXCEPT ![p] = TRUE]
            /\ UNCHANGED << now, processedPosts, covers, unmuteTasks >>
       ELSE /\ processedPosts' = [processedPosts EXCEPT ![h] =
                 [present |-> TRUE, categories |-> enhanced,
                  matched |-> matched, shouldBlock |-> block,
                  processedAt |-> at]]
            /\ now' = at
            /\ covers' = IF block THEN covers ELSE removePostCover(covers, t)
            /\ unmuteTasks' = IF block THEN unmuteTasks
                              ELSE Detach(unmuteTasks, covers, t)
            /\ passes' = [passes EXCEPT ![p][i] =
                 [@ EXCEPT !.pc = "dwell", !.remote = outcome \in RemoteFailures,
                           !.res = [categories |-> enhanced, matched |-> matched,
                                    shouldBlock |-> block, processedAt |-> at],
                           !.status = StatusOf(uc, enhanced, block)]]
            /\ UNCHANGED << indicator, marker, failed >>
  /\ UNCHANGED << decision, everUnmuted, reprocessed, platform, results, debugObj, listener, sending, hashing, stored, initPc, resolved, viewport, categoriesUpdatedDirty, missed, batch, enabled, userCategories, unmutedPosts,
                  lastCategoriesUpdate, categoriesDirty, page, calls,
                  coverTasks, watchQueue, invocations, changes, clicks >>

\* lines 1011-1064 and 1271-1331: the minimum dwell is over.  The indicator
\* takes the status of the decision, the marker is removed, and a decision
\* to block calls applyPostCover on the overlay target without awaiting it.
\* (After a request that took longer than the minimum there is no wait, and
\* this step follows the response at once.)
Dwell(p, i) ==
  /\ i \in 1..Len(passes[p])
  /\ passes[p][i].pc = "dwell"
  /\ LET d == passes[p][i]
         task == [target |-> findBestOverlayTarget(p),
                  hash |-> Fingerprint(platform, p),
                  categories |-> d.res.categories,
                  matched |-> d.res.matched]
     IN  /\ indicator' = addStatusIndicator(indicator, p, d.status)
         /\ marker' = removeProcessingAttribute(marker, p)
         /\ coverTasks' = IF d.res.shouldBlock THEN coverTasks \cup {task}
                          ELSE coverTasks
         /\ passes' = [passes EXCEPT ![p] = Without(@, i)]
  /\ UNCHANGED << decision, everUnmuted, reprocessed, platform, results, debugObj, listener, sending, hashing, stored, initPc, resolved, viewport, categoriesUpdatedDirty, missed, batch, now, enabled, userCategories, unmutedPosts,
                  processedPosts, lastCategoriesUpdate, categoriesDirty,
                  covers, page, calls, unmuteTasks, watchQueue,
                  invocations, changes, clicks, failed >>

(***************************************************************************)
(* The cover                                                                *)
(***************************************************************************)
\* applyPostCover lines 162-168: the post is already unmuted
IsUnmuted(list, hash) == ArrIncludes(list, hash)

\* applyPostCover, from the moment its read of "unmutedPosts" settles: a
\* rejected read, an unmuted fingerprint and a cover already inside the
\* target all return; otherwise the target gets the blocked indicator and
\* the cover
applyPostCover(task, readOk) ==
  /\ task \in coverTasks
  /\ coverTasks' = coverTasks \ {task}
  /\ IF readOk /\ ~IsUnmuted(unmutedPosts, task.hash)
        /\ existingCover(covers, task.target) = "none"
       THEN /\ indicator' = addStatusIndicator(indicator, task.target, "blocked")
            /\ covers' = [covers EXCEPT ![task.target] =
                 Append(@, [hash |-> task.hash, categories |-> task.categories,
                            matched |-> task.matched])]
       ELSE UNCHANGED << indicator, covers >>
  /\ UNCHANGED << decision, everUnmuted, reprocessed, platform, results, debugObj, listener, sending, hashing, stored, initPc, resolved, viewport, categoriesUpdatedDirty, missed, batch, now, enabled, userCategories, unmutedPosts,
                  processedPosts, lastCategoriesUpdate, categoriesDirty,
                  marker, page, calls, passes, unmuteTasks, watchQueue,
                  invocations, changes, clicks, failed >>

\* unmute lines 275-277: the Show button of the cover on t was clicked, the
\* 600 ms of the fade-out are over and the read of "unmutedPosts" resolves
UnmuteRead(t) ==
  /\ covers[t] # <<>>
  /\ clicks < MaxUnmutes
  /\ clicks' = clicks + 1
  /\ unmuteTasks' = unmuteTasks \cup
       {[target |-> t, hash |-> covers[t][1].hash, list |-> unmutedPosts,
         live |-> TRUE]}
  /\ UNCHANGED << decision, everUnmuted, reprocessed, platform, results, debugObj, listener, sending, hashing, stored, initPc, resolved, viewport, categoriesUpdatedDirty, missed, batch, now, enabled, userCategories, unmutedPosts,
                  processedPosts, lastCategoriesUpdate, categoriesDirty,
                  marker, indicator, covers, page, calls, passes,
                  coverTasks, watchQueue, invocations, changes, failed >>

\* the list unmute writes: the list it read, with the fingerprint appended
UnmuteList(u) == Append(u.list, u.hash)

\* unmute lines 278-286: the write of the list that was read, with the
\* fingerprint appended, and the removal of the cover
UnmuteWrite(u) ==
  /\ u \in unmuteTasks
  /\ unmutedPosts' = UnmuteList(u)
  /\ everUnmuted' = everUnmuted \cup {u.hash}
  /\ covers' = IF u.live THEN [covers EXCEPT ![u.target] = Tail(@)] ELSE covers
  /\ unmuteTasks' =
       {IF v.target = u.target /\ u.live THEN [v EXCEPT !.live = FALSE] ELSE v :
          v \in unmuteTasks \ {u}}
  /\ UNCHANGED << decision, reprocessed, platform, results, debugObj, listener, sending, hashing, stored, initPc, resolved, viewport, categoriesUpdatedDirty, missed, batch, now, enabled, userCategories, processedPosts,
                  lastCategoriesUpdate, categoriesDirty, marker, indicator,
                  page, calls, passes, coverTasks, watchQueue,
                  invocations, changes, clicks, failed >>

\* the timer of removeStatusIndicator fires: the indicator is removed if it
\* is still a child of the container
FadeDone(p) ==
  /\ indicator[p].fade
  /\ indicator' = [indicator EXCEPT ![p] = NoIndicator]
  /\ UNCHANGED << decision, everUnmuted, reprocessed, platform, results, debugObj, listener, sending, hashing, stored, initPc, resolved, viewport, categoriesUpdatedDirty, missed, batch, now, enabled, userCategories, unmutedPosts,
                  processedPosts, lastCategoriesUpdate, categoriesDirty,
                  marker, covers, page, calls, passes, coverTasks,
                  unmuteTasks, watchQueue, invocations, changes, clicks,
                  failed >>

(***************************************************************************)
(* The environment: the popup, the clock, scrolling                         *)
(***************************************************************************)
\* the popup saves the categories; the change event is queued
SaveCategories(new) ==
  /\ changes < MaxChanges
  /\ new # userCategories
  /\ userCategories' = new
  /\ watchQueue' = watchQueue + 1
  /\ changes' = changes + 1
  /\ UNCHANGED << decision, everUnmuted, reprocessed, platform, results, debugObj, listener, sending, hashing, stored, initPc, resolved, viewport, categoriesUpdatedDirty, missed, batch, now, enabled, unmutedPosts, processedPosts,
                  lastCategoriesUpdate, categoriesDirty, marker, indicator,
                  covers, page, calls, passes, coverTasks, unmuteTasks,
                  invocations, clicks, failed >>

Next ==
  \/ \E n \in Posts, type \in {"childList", "attributes"} : Observer(n, type)
  \/ PollTick
  \/ \E t \in 0..MaxTime : WatchFire(t)
  \/ \E p \in Posts, tag \in {"early", "late"}, ok \in BOOLEAN : Enter(p, tag, ok)
  \/ \E p \in Posts, i \in 1..2, ok \in BOOLEAN : ReadCategories(p, i, ok)
  \/ \E p \in Posts, i \in 1..2, tr \in TransportOutcomes, o \in RemoteOutcomes,
          at \in 0..MaxTime : Response(p, i, tr, o, at)
  \/ \E p \in Posts, i \in 1..2 : Dwell(p, i)
  \/ \E task \in coverTasks, ok \in BOOLEAN : applyPostCover(task, ok)
  \/ \E p \in Posts : FadeDone(p)
  \/ \E new \in CategoryChoices : SaveCategories(new)

Spec == Init /\ [][Next]_vars

(***************************************************************************)
(* The covers and their Show buttons.  The document holds two tweets whose  *)
(* cells the observers have handed over: both were categorized POLITICS     *)
(* under the initial categories, cached, and covered.                       *)
(***************************************************************************)
\* the cache entry of a pass that read the initial categories
CoveredEntry(h) ==
  LET enhanced == Enhanced[TRUE][h]["ok"]
  IN  [present |-> TRUE, categories |-> enhanced,
       matched |-> matchingExcludeCategories(InitialCategories, enhanced),
       shouldBlock |-> shouldBlock(InitialCategories, enhanced),
       processedAt |-> 0]

\* the cover applyPostCover appends for that entry
CoverOf(h) ==
  [hash |-> h, categories |-> CoveredEntry(h).categories,
   matched |-> CoveredEntry(h).matched]

InitCovered ==
  /\ decision = NoDecision
  /\ everUnmuted = {}
  /\ results = NoResults
  /\ debugObj = DebugNoCache
  /\ listener = ListenerOnce
  /\ sending = NoSending
  /\ hashing = NoHashing
  /\ reprocessed = {}
  /\ platform = "TWITTER"
  /\ Started
  /\ now = 0
  /\ enabled = "true"
  /\ userCategories = InitialCategories
  /\ unmutedPosts = <<>>
  /\ processedPosts = [h \in Hashes |->
       IF h \in {"h1", "h2"} THEN CoveredEntry(h) ELSE NoEntry]
  /\ lastCategoriesUpdate = 0
  /\ categoriesDirty = FALSE
  /\ marker = [p \in Posts |-> FALSE]
  /\ indicator = [p \in Posts |->
       IF p \in Cells THEN [status |-> "blocked", fade |-> FALSE,
                             unmuting |-> FALSE]
       ELSE NoIndicator]
  /\ covers = [p \in Posts |->
       IF p \in Cells THEN <<CoverOf(Fingerprint("TWITTER", p))>> ELSE <<>>]
  /\ page = Cells
  /\ viewport = page
  /\ categoriesUpdatedDirty = FALSE
  /\ missed = {}
  /\ batch = -1
  /\ calls = [p \in Posts |-> NoCall]
  /\ passes = [p \in Posts |-> <<>>]
  /\ coverTasks = {}
  /\ unmuteTasks = {}
  /\ watchQueue = 0
  /\ invocations = MaxInvocations
  /\ changes = 0
  /\ clicks = 0
  /\ failed = [p \in Posts |-> FALSE]

NextUnmute ==
  \/ \E t \in 0..MaxTime : WatchFire(t)
  \/ \E p \in Posts, tag \in {"early", "late"}, ok \in BOOLEAN : Enter(p, tag, ok)
  \/ \E p \in Posts, i \in 1..2, ok \in BOOLEAN : ReadCategories(p, i, ok)
  \/ \E p \in Posts, i \in 1..2, tr \in TransportOutcomes, o \in RemoteOutcomes,
          at \in 0..MaxTime : Response(p, i, tr, o, at)
  \/ \E p \in Posts, i \in 1..2 : Dwell(p, i)
  \/ \E task \in coverTasks, ok \in BOOLEAN : applyPostCover(task, ok)
  \/ \E t \in Cells : UnmuteRead(t)
  \/ \E u \in unmuteTasks : UnmuteWrite(u)
  \/ \E p \in Posts : FadeDone(p)
  \/ \E new \in CategoryChoices : SaveCategories(new)

SpecUnmute == InitCovered /\ [][NextUnmute]_vars

(***************************************************************************)
(* The decision alone: lines 1137-1203 applied to one response under one    *)
(* value of user-categories.                                                *)
(***************************************************************************)
DecideLists ==
  { <<>>, <<W_POLITICS>>, <<w_politics>>, <<W_SPORT>>, <<W_SPORTS>>,
    <<W_TECH, W_SPORTS>>, <<W_POLITICS, W_SPORTS>> }

DecideResponses ==
  { <<>>, <<w_politics>>, <<W_SPORTS>>, <<w_esport>>, <<W_POLITICS, W_SPORTS>>,
    <<W_AI>>, <<W_ERROR>>, <<w_html>>, <<W_SPORT>> }

InitDecide ==
  /\ InitScript
  /\ platform = "TWITTER"
  /\ enabled = "true"
  /\ page = {"c1", "a1"}
  /\ \E inc \in DecideLists, exc \in DecideLists, r \in DecideResponses :
       decision = [done |-> FALSE, uc |-> [include |-> inc, exclude |-> exc],
                   response |-> r]

\* lines 1137-1203 and the status of lines 1271-1331
Decide ==
  /\ ~decision.done
  /\ LET enhanced == enhancedCategories(decision.response)
         block    == shouldBlock(decision.uc, enhanced)
     IN  decision' =
           [done |-> TRUE, uc |-> decision.uc, response |-> decision.response,
            categories |-> enhanced, shouldBlock |-> block,
            matched |-> matchingExcludeCategories(decision.uc, enhanced),
            status |-> StatusOf(decision.uc, enhanced, block)]
  /\ UNCHANGED << everUnmuted, reprocessed, platform, results, debugObj, listener, sending, hashing, stored, initPc, resolved, viewport, categoriesUpdatedDirty, missed, batch, now, enabled, userCategories, unmutedPosts,
                  processedPosts, lastCategoriesUpdate, categoriesDirty,
                  marker, indicator, covers, page, calls, passes, coverTasks,
                  unmuteTasks, watchQueue, invocations, changes, clicks,
                  failed >>

NextDecide == Decide

SpecDecide == InitDecide /\ [][NextDecide]_vars

(***************************************************************************)
(* Bounds of the message scenario                                           *)
(***************************************************************************)
MaxListenerCalls == 3
MaxResets == 1

(***************************************************************************)
(* Properties                                                               *)
(***************************************************************************)
\* C1: a marker that a pass has set is removed again on every path of the
\* pass.  Only the pass that set the marker removes it, so the claim says
\* that a marked element always has a pass in flight: a marked element
\* without one stays marked for good.
C1_MarkerRemoved == \A p \in Posts : marker[p] => passes[p] # <<>>

\* the marker is stuck: set, with no pass in flight and no call pending
C1_StuckMarker ==
  \E p \in Posts : marker[p] /\ passes[p] = <<>> /\ Pending(p) = 0

\* C2, as the claim states it: of two invocations on one element, the second
\* made before the first has finished, only one sets the marker and goes
\* on; so a call made while a pass on the element is in flight never
\* becomes a pass.
C2_SecondNeverGoesOn ==
  \A p \in Posts : \A i \in 1..Len(passes[p]) : ~passes[p][i].late

\* C2, amended: at no time are two passes in flight on one element, and a
\* call that reaches the marker check while the marker is set ends without
\* a change to the DOM, the cache, the passes or the covers.
C2_MarkerDedup ==
  [][ /\ \A p \in Posts : Len(passes'[p]) <= 1
      /\ \A p \in Posts :
           (marker[p] /\ Pending(p)' < Pending(p)) =>
             UNCHANGED << marker, indicator, covers, processedPosts, passes,
                          coverTasks, unmutedPosts >> ]_vars

\* a pass on p holds the marker while another call on p, made before that
\* pass went in, is still waiting for its read of "enabled"
C2_TwoInvocations ==
  \E p \in Posts : Len(passes[p]) = 1 /\ marker[p] /\ calls[p].early > 0

\* C3: no pass shows a decision taken from a cache entry that was processed
\* before the last category update: a pass that ends its dwell on a cache
\* hit holds an entry with processedAt >= lastCategoriesUpdate.
C3_NoStaleRender ==
  [][ \A p \in Posts :
        ( /\ passes[p] # <<>>
          /\ passes[p][1].pc = "dwell"
          /\ passes[p][1].hit
          /\ passes'[p] = <<>> )
        => passes[p][1].res.processedAt >= lastCategoriesUpdate ]_vars

\* some entry of list equals some normalized category of the decision after
\* upper-casing both
EqualsSome(list) ==
  \E i \in 1..Len(list), j \in 1..Len(decision.categories) :
    ToUpper(list[i]) = ToUpper(decision.categories[j])

\* some entry of list is a proper part of some normalized category, or the
\* reverse
PartOfSome(list) ==
  \E i \in 1..Len(list), j \in 1..Len(decision.categories) :
    /\ ToUpper(list[i]) # ToUpper(decision.categories[j])
    /\ \/ StrIncludes(ToUpper(decision.categories[j]), ToUpper(list[i]))
       \/ StrIncludes(ToUpper(list[i]), ToUpper(decision.categories[j]))

\* C4: a decision whose normalized categories match an include entry does
\* not block, whatever the exclude list matches.
C4_IncludePrecedence ==
  (decision.done /\ EqualsSome(decision.uc.include)) => ~decision.shouldBlock

\* C5: without an include match, the decision blocks exactly when some
\* exclude entry equals some normalized category after upper-casing both.
C5_ExactExcludeMatch ==
  (decision.done /\ ~EqualsSome(decision.uc.include)) =>
    (decision.shouldBlock <=> EqualsSome(decision.uc.exclude))

\* a decision without an include match whose exclude list shares only a
\* part of a category: it does not block
C5_SubstringOnly ==
  /\ decision.done
  /\ ~EqualsSome(decision.uc.include)
  /\ PartOfSome(decision.uc.exclude)
  /\ ~EqualsSome(decision.uc.exclude)
  /\ ~decision.shouldBlock

\* C6: a post whose fingerprint unmute has written to unmutedPosts gets no
\* cover from then on: every cover a step appends carries a fingerprint that
\* was never written.
C6_NoCoverOnceUnmuted ==
  [][ \A t \in Cells :
        Len(covers'[t]) > Len(covers[t]) =>
          covers'[t][Len(covers'[t])].hash \notin everUnmuted ]_vars

\* nothing is pending: no call, no pass, no cover to apply, no change event
Settled ==
  /\ \A p \in Posts : Pending(p) = 0 /\ passes[p] = <<>>
  /\ coverTasks = {}
  /\ watchQueue = 0

\* C7: a post that a category change found visible, cached, showing a result
\* and not in flight is reprocessed and ends with a result again: once
\* nothing is pending, its indicator is not left at "processing".
C7_ReprocessedToResult ==
  \A p \in reprocessed :
    Settled =>
      \/ existingIndicator(indicator, p) = "none"
      \/ indicator[existingIndicator(indicator, p)].status \in FinalStatuses

\* the step delivers to the pass on p the answer of a remote call that
\* failed: no API key, an HTTP error or unparsable model output
RemoteFailureArrives(p) ==
  /\ passes[p] # <<>>
  /\ passes[p][1].pc = "response"
  /\ passes'[p] # <<>>
  /\ passes'[p][1].remote

\* C8: a failed remote categorization aborts the pass: the step in which its
\* answer arrives writes no cache entry and leaves no decision to show.
C8_RemoteFailureAborts ==
  [][ \A p \in Posts :
        RemoteFailureArrives(p) =>
          /\ processedPosts' = processedPosts
          /\ passes'[p][1].status \notin FinalStatuses ]_vars

\* the step ends the pass on p at its request: the request threw, or came
\* back empty or without a categories list
RequestFails(p) ==
  /\ passes[p] # <<>>
  /\ passes[p][1].pc = "response"
  /\ passes'[p] = <<>>

\* C9: a pass whose request throws or comes back empty or without a
\* categories list writes no cache entry, clears the marker of its element
\* and removes the indicator it appended to the element (the indicator is
\* gone, or fading with its removal timer set).
C9_FailureCleansUp ==
  [][ \A p \in Posts :
        RequestFails(p) =>
          /\ processedPosts' = processedPosts
          /\ ~marker'[p]
          /\ indicator'[p].status = "none" \/ indicator'[p].fade ]_vars

\* C10: processPost is called for an element whose pass has failed only by
\* the mutation observer or by the handler of a category change, and not by
\* the polling timer.
C10_NoRetryByTimer ==
  [][ (\E p \in Posts : failed[p] /\ Pending(p)' > Pending(p)) =>
        \/ \E n \in Posts, type \in {"childList", "attributes"} :
             Observer(n, type)
        \/ \E t \in 0..MaxTime : WatchFire(t) ]_vars


(***************************************************************************)
(* Scrolling after a category change.  The document holds two tweets that   *)
(* were categorized and cached under categories that block neither; the     *)
(* first is in the viewport, the second is below it.                        *)
(***************************************************************************)
ScrollCategories == [include |-> <<>>, exclude |-> <<W_SPORT>>]

\* the cache entry of a pass that read ScrollCategories
ScrolledEntry(h) ==
  LET enhanced == Enhanced[TRUE][h]["ok"]
  IN  [present |-> TRUE, categories |-> enhanced,
       matched |-> matchingExcludeCategories(ScrollCategories, enhanced),
       shouldBlock |-> shouldBlock(ScrollCategories, enhanced),
       processedAt |-> 0]

InitScroll ==
  /\ decision = NoDecision
  /\ everUnmuted = {}
  /\ results = NoResults
  /\ debugObj = DebugNoCache
  /\ listener = ListenerOnce
  /\ sending = NoSending
  /\ hashing = NoHashing
  /\ reprocessed = {}
  /\ platform = "TWITTER"
  /\ viewport = {"c1"}
  /\ categoriesUpdatedDirty = FALSE
  /\ missed = {}
  /\ batch = -1
  /\ Started
  /\ now = 0
  /\ enabled = "true"
  /\ userCategories = ScrollCategories
  /\ unmutedPosts = <<>>
  /\ processedPosts = [h \in Hashes |->
       IF h \in {"h1", "h2"} THEN ScrolledEntry(h) ELSE NoEntry]
  /\ lastCategoriesUpdate = 0
  /\ categoriesDirty = FALSE
  /\ marker = [p \in Posts |-> FALSE]
  /\ indicator = [p \in Posts |->
       IF p \in Cells
         THEN [status |-> StatusOf(ScrollCategories,
                                   ScrolledEntry(Fingerprint("TWITTER", p)).categories,
                                   ScrolledEntry(Fingerprint("TWITTER", p)).shouldBlock),
               fade |-> FALSE, unmuting |-> FALSE]
         ELSE NoIndicator]
  /\ covers = [p \in Posts |-> <<>>]
  /\ page = Cells
  /\ calls = [p \in Posts |-> NoCall]
  /\ passes = [p \in Posts |-> <<>>]
  /\ coverTasks = {}
  /\ unmuteTasks = {}
  /\ watchQueue = 0
  /\ invocations = MaxInvocations - 1
  /\ changes = 0
  /\ clicks = 0
  /\ failed = [p \in Posts |-> FALSE]

\* the post has a cache entry under its text-only hash that was written
\* after the last category update (lines 2330-2344)
FreshByText(p) ==
  /\ ScanHash(platform, p) \in Hashes
  /\ processedPosts[ScanHash(platform, p)].present
  /\ processedPosts[ScanHash(platform, p)].processedAt >= lastCategoriesUpdate

\* lines 2310-2352: with the dirty flag set, the scroll check looks whether
\* every visible post is fresh and then shows a status message
allProcessed(v) == v # {} /\ \A p \in v : FreshByText(p)

\* lines 2299-2357: the user scrolls so that the posts v are in the
\* viewport, and the debounced scroll listener runs.  It shows a message
\* if the flag is set and allProcessed holds; it calls nothing and assigns
\* nothing.
Scroll(v) ==
  /\ v \subseteq page
  /\ v # viewport
  /\ viewport' = v
  /\ UNCHANGED << decision, everUnmuted, reprocessed, platform, results, debugObj, listener, sending, hashing, stored, initPc, resolved,
                  categoriesUpdatedDirty, missed, batch, now, enabled,
                  userCategories, unmutedPosts, processedPosts,
                  lastCategoriesUpdate, categoriesDirty, marker, indicator,
                  covers, page, calls, passes, coverTasks, unmuteTasks,
                  watchQueue, invocations, changes, clicks, failed >>

\* lines 1871-1945: window.__feedlyDebug.triggerCategoryUpdate, run at time
\* t: the timestamp is set, the flag is set, and the visible posts are
\* reprocessed as by the storage watcher (the model counts it among the
\* category changes it follows)
triggerCategoryUpdate(t) ==
  /\ t \in Clock
  /\ changes < MaxChanges
  /\ changes' = changes + 1
  /\ \A p \in VisiblePosts : Pending(p) < MaxCalls
  /\ now' = t
  /\ lastCategoriesUpdate' = t
  /\ categoriesUpdatedDirty' = TRUE
  /\ missed' = {p \in page \ VisiblePosts : Cached(p)}
  /\ processedPosts' = reprocessVisiblePosts(processedPosts)
  /\ calls' = CallsAfter(VisiblePosts)
  /\ failed' = [p \in Posts |-> FALSE]
  /\ UNCHANGED << decision, everUnmuted, reprocessed, platform, results, debugObj, listener, sending, hashing, stored, initPc, resolved, viewport,
                  batch, enabled, userCategories, unmutedPosts, categoriesDirty,
                  marker, indicator, covers, page, passes, coverTasks,
                  unmuteTasks, watchQueue, invocations, clicks >>

NextScroll ==
  \/ \E v \in SUBSET Cells : Scroll(v)
  \/ \E t \in 0..MaxTime : triggerCategoryUpdate(t)
  \/ \E new \in CategoryChoices : SaveCategories(new)
  \/ \E t \in 0..MaxTime : WatchFire(t)
  \/ \E n \in Posts, type \in {"childList", "attributes"} : Observer(n, type)
  \/ PollTick
  \/ \E p \in Posts, tag \in {"early", "late"}, ok \in BOOLEAN : Enter(p, tag, ok)
  \/ \E p \in Posts, i \in 1..2, ok \in BOOLEAN : ReadCategories(p, i, ok)
  \/ \E p \in Posts, i \in 1..2, tr \in TransportOutcomes, o \in RemoteOutcomes,
          at \in 0..MaxTime : Response(p, i, tr, o, at)
  \/ \E p \in Posts, i \in 1..2 : Dwell(p, i)
  \/ \E task \in coverTasks, ok \in BOOLEAN : applyPostCover(task, ok)
  \/ \E p \in Posts : FadeDone(p)

\* what the event loop does without the user: a delivered storage event, a
\* settled promise and an expired timer run their continuation
ScriptStep ==
  \/ \E t \in 0..MaxTime : WatchFire(t)
  \/ \E p \in Posts, tag \in {"early", "late"}, ok \in BOOLEAN : Enter(p, tag, ok)
  \/ \E p \in Posts, i \in 1..2, ok \in BOOLEAN : ReadCategories(p, i, ok)
  \/ \E p \in Posts, i \in 1..2, tr \in TransportOutcomes, o \in RemoteOutcomes,
          at \in 0..MaxTime : Response(p, i, tr, o, at)
  \/ \E p \in Posts, i \in 1..2 : Dwell(p, i)
  \/ \E task \in coverTasks, ok \in BOOLEAN : applyPostCover(task, ok)
  \/ \E p \in Posts : FadeDone(p)
  \/ PollTick

SpecScroll == InitScroll /\ [][NextScroll]_vars /\ WF_vars(ScriptStep)

(***************************************************************************)
(* C11.  After a category change, a post whose cache entry is stale and     *)
(* that the change found outside the viewport is, once it is scrolled into  *)
(* view, eventually passed to processPost again.                            *)
(***************************************************************************)
\* p was off-screen at the last change, is in view now, and its cached
\* decision is older than the change
StaleInView(p) ==
  /\ p \in missed
  /\ p \in viewport
  /\ Cached(p)
  /\ IsStale(processedPosts[Fingerprint(platform, p)])

\* a processPost call on p is pending or running
HandedOver(p) == Pending(p) > 0 \/ passes[p] # <<>>

C11_ScrolledIntoViewReprocessed ==
  \A p \in Cells : StaleInView(p) ~> (HandedOver(p) \/ ~StaleInView(p))

\* the case of C11: the post shows the result of before the change although
\* the categories of now would block it
C11_StaleShown ==
  /\ StaleInView("c2")
  /\ ~HandedOver("c2")
  /\ ShowsResult("c2")
  /\ indicator["c2"].status # "blocked"
  /\ shouldBlock(userCategories,
                 processedPosts[Fingerprint(platform, "c2")].categories)

(***************************************************************************)
(* C12.  The dirty flag is true exactly while a category change has been    *)
(* delivered and some visible post has no cache entry written since that    *)
(* change.  The program has two such flags, categoriesUpdatedDirty, which   *)
(* the scroll check reads, and categoriesDirty, which the storage watcher   *)
(* sets: the property asks that one of them behaves so.                     *)
(***************************************************************************)
\* a category change has been delivered to the content script
ChangeDelivered == changes > 0 /\ watchQueue = 0

\* p has a cache entry that was written since the last category update
Reprocessed(p) ==
  /\ Cached(p)
  /\ ~IsStale(processedPosts[Fingerprint(platform, p)])

DirtyExact(flag) ==
  flag <=> (ChangeDelivered /\ \E p \in viewport : ~Reprocessed(p))

C12_DirtyFlagExact ==
  \/ [](DirtyExact(categoriesUpdatedDirty))
  \/ [](DirtyExact(categoriesDirty))

\* the case of C12: after a delivered change every visible post has been
\* reprocessed, while one flag was never set and the other is still set
C12_FlagsOff ==
  /\ ChangeDelivered
  /\ lastCategoriesUpdate > 0
  /\ viewport # {}
  /\ \A p \in viewport : Reprocessed(p) /\ ~InFlight(p)
  /\ ~categoriesUpdatedDirty
  /\ categoriesDirty

(***************************************************************************)
(* Observation of a feed of six tweets in a content script whose storage    *)
(* reads are rejected (the extension was reloaded and the context of the    *)
(* script is invalidated): every processPost call throws at its first       *)
(* await.  The calls of the initial batches and of the polling timer are    *)
(* not counted, so that the timer can go on for ever.                       *)
(***************************************************************************)
\* processBatch(0, 5)
BatchSize == 5

\* the snapshot feed.querySelectorAll(POST) of startObserving
InitialPosts == SelectSeq(PostOrder, LAMBDA p : p \in page)

\* lines 1459-1483: processBatch(batch, 5) hands over the posts of its
\* slice that pass the skip rule and sets the timer of the next batch
BatchTargets ==
  LET endIndex == IF batch + BatchSize < Len(InitialPosts)
                    THEN batch + BatchSize ELSE Len(InitialPosts)
  IN  {InitialPosts[i] : i \in {j \in (batch + 1)..endIndex :
                                   Eligible(InitialPosts[j])}}

processBatch ==
  /\ batch >= 0
  /\ \A p \in BatchTargets : Pending(p) < MaxCalls
  /\ calls' = CallsAfter(BatchTargets)
  /\ batch' = IF batch + BatchSize < Len(InitialPosts)
                THEN batch + BatchSize ELSE -1
  /\ UNCHANGED << decision, everUnmuted, reprocessed, platform, results, debugObj, listener, sending, hashing, stored, initPc, resolved, viewport,
                  categoriesUpdatedDirty, missed, now, enabled,
                  userCategories, unmutedPosts, processedPosts,
                  lastCategoriesUpdate, categoriesDirty, marker, indicator,
                  covers, page, passes, coverTasks, unmuteTasks, watchQueue,
                  invocations, changes, clicks, failed >>

\* lines 1485-1505: one tick of the polling timer, its calls not counted
PollCycle ==
  /\ platform = "TWITTER"
  /\ PollTargets # {}
  /\ \A p \in PollTargets : Pending(p) < MaxCalls
  /\ calls' = CallsAfter(PollTargets)
  /\ UNCHANGED << decision, everUnmuted, reprocessed, platform, results, debugObj, listener, sending, hashing, stored, initPc, resolved, viewport,
                  categoriesUpdatedDirty, missed, batch, now, enabled,
                  userCategories, unmutedPosts, processedPosts,
                  lastCategoriesUpdate, categoriesDirty, marker, indicator,
                  covers, page, passes, coverTasks, unmuteTasks, watchQueue,
                  invocations, changes, clicks, failed >>

InitFeed ==
  /\ decision = NoDecision
  /\ everUnmuted = {}
  /\ results = NoResults
  /\ debugObj = DebugNoCache
  /\ listener = ListenerOnce
  /\ sending = NoSending
  /\ hashing = NoHashing
  /\ reprocessed = {}
  /\ platform = "TWITTER"
  /\ viewport = Feed
  /\ categoriesUpdatedDirty = FALSE
  /\ missed = {}
  /\ batch = 0
  /\ Started
  /\ now = 0
  /\ enabled = "true"
  /\ userCategories = InitialCategories
  /\ unmutedPosts = <<>>
  /\ processedPosts = [h \in Hashes |-> NoEntry]
  /\ lastCategoriesUpdate = 0
  /\ categoriesDirty = FALSE
  /\ marker = [p \in Posts |-> FALSE]
  /\ indicator = [p \in Posts |-> NoIndicator]
  /\ covers = [p \in Posts |-> <<>>]
  /\ page = Feed
  /\ calls = [p \in Posts |-> NoCall]
  /\ passes = [p \in Posts |-> <<>>]
  /\ coverTasks = {}
  /\ unmuteTasks = {}
  /\ watchQueue = 0
  /\ invocations = MaxInvocations - 1
  /\ changes = 0
  /\ clicks = 0
  /\ failed = [p \in Posts |-> FALSE]

NextFeed ==
  \/ processBatch
  \/ PollCycle
  \/ \E p \in Posts, tag \in {"early", "late"} : Enter(p, tag, FALSE)

\* the timers fire and a rejected read runs its continuation
SpecFeed ==
  /\ InitFeed
  /\ [][NextFeed]_vars
  /\ WF_vars(processBatch)
  /\ WF_vars(PollCycle)
  /\ WF_vars(\E p \in Posts, tag \in {"early", "late"} : Enter(p, tag, FALSE))

(***************************************************************************)
(* C20.  Every post of the feed that carries neither marker nor indicator   *)
(* and has no call pending is eventually handed to processPost by the       *)
(* polling timer, also while the calls on other posts keep failing.         *)
(***************************************************************************)
\* p waits for the timer: it passes the skip rule and no call on it is
\* pending, and the initial batches are over
Waiting(p) == p \in page /\ Eligible(p) /\ Pending(p) = 0 /\ batch = -1

C20_PollReachesEveryPost ==
  \A p \in Feed : Waiting(p) ~> (Pending(p) > 0)

\* the case of C20: five posts ahead of c6 take the five calls of a tick
C20_FiveAhead ==
  /\ Waiting("c6")
  /\ Cardinality(PollTargets) = PollCap
  /\ "c6" \notin PollTargets

(***************************************************************************)
(* Observation from its start: the initial batch, the MutationObserver and  *)
(* the polling timer on a page of one tweet, with requests that are         *)
(* answered or rejected.                                                    *)
(***************************************************************************)
InitObserve ==
  /\ decision = NoDecision
  /\ everUnmuted = {}
  /\ results = NoResults
  /\ debugObj = DebugNoCache
  /\ listener = ListenerOnce
  /\ sending = NoSending
  /\ hashing = NoHashing
  /\ reprocessed = {}
  /\ platform \in Platforms
  /\ viewport = {"c1", "a1"}
  /\ categoriesUpdatedDirty = FALSE
  /\ missed = {}
  /\ batch = 0
  /\ Started
  /\ now = 0
  /\ enabled = "true"
  /\ userCategories = InitialCategories
  /\ unmutedPosts = <<>>
  /\ processedPosts = [h \in Hashes |-> NoEntry]
  /\ lastCategoriesUpdate = 0
  /\ categoriesDirty = FALSE
  /\ marker = [p \in Posts |-> FALSE]
  /\ indicator = [p \in Posts |-> NoIndicator]
  /\ covers = [p \in Posts |-> <<>>]
  /\ page = {"c1", "a1"}
  /\ calls = [p \in Posts |-> NoCall]
  /\ passes = [p \in Posts |-> <<>>]
  /\ coverTasks = {}
  /\ unmuteTasks = {}
  /\ watchQueue = 0
  /\ invocations = 0
  /\ changes = 0
  /\ clicks = 0
  /\ failed = [p \in Posts |-> FALSE]

NextObserve ==
  \/ processBatch
  \/ \E n \in Posts, type \in {"childList", "attributes"} : Observer(n, type)
  \/ PollTick
  \/ \E p \in Posts, tag \in {"early", "late"}, ok \in BOOLEAN : Enter(p, tag, ok)
  \/ \E p \in Posts, i \in 1..2, ok \in BOOLEAN : ReadCategories(p, i, ok)
  \/ \E p \in Posts, i \in 1..2, tr \in {"delivered", "throws"},
          at \in 0..MaxTime : Response(p, i, tr, "ok", at)
  \/ \E p \in Posts, i \in 1..2 : Dwell(p, i)
  \/ \E task \in coverTasks, ok \in BOOLEAN : applyPostCover(task, ok)
  \/ \E p \in Posts : FadeDone(p)

SpecObserve == InitObserve /\ [][NextObserve]_vars

(***************************************************************************)
(* C13.  The initial batch, the MutationObserver and the polling timer call *)
(* processPost on an element only if, when they look at it, the element     *)
(* carries no marker and holds no status indicator.                         *)
(***************************************************************************)
C13_SkipRule ==
  [][ \A p \in Posts :
        Pending(p)' > Pending(p)
          => /\ ~marker[p]
             /\ existingIndicator(indicator, p) = "none" ]_vars

\* the case of C13: a handler has handed over the article while it passed
\* over the cell around it, which holds an indicator and no marker
C13_Skipped ==
  /\ invocations > 0
  /\ Pending("a1") > 0
  /\ Eligible("a1")
  /\ Pending("c1") = 0
  /\ ~marker["c1"]
  /\ indicator["c1"].status # "none"

(***************************************************************************)
(* Cache hits.  The page was rendered anew: its posts are new elements, but *)
(* the decisions on their fingerprints are cached from passes that read the *)
(* initial categories.  The storage reads succeed.                          *)
(***************************************************************************)
\* the cache entry of such a pass; h3 is the fingerprint of the LinkedIn
\* actor block, which has no text
CachedEntry(h) ==
  LET enhanced == Enhanced[h # "h3"][h]["ok"]
  IN  [present |-> TRUE, categories |-> enhanced,
       matched |-> matchingExcludeCategories(InitialCategories, enhanced),
       shouldBlock |-> shouldBlock(InitialCategories, enhanced),
       processedAt |-> 0]

InitCache ==
  /\ decision = NoDecision
  /\ everUnmuted = {}
  /\ results = NoResults
  /\ debugObj = DebugNoCache
  /\ listener = ListenerOnce
  /\ sending = NoSending
  /\ hashing = NoHashing
  /\ reprocessed = {}
  /\ platform \in Platforms
  /\ viewport = {"c1", "a1"}
  /\ categoriesUpdatedDirty = FALSE
  /\ missed = {}
  /\ batch = -1
  /\ Started
  /\ now = 0
  /\ enabled = "true"
  /\ userCategories = InitialCategories
  /\ unmutedPosts = <<>>
  /\ processedPosts = [h \in Hashes |-> CachedEntry(h)]
  /\ lastCategoriesUpdate = 0
  /\ categoriesDirty = FALSE
  /\ marker = [p \in Posts |-> FALSE]
  /\ indicator = [p \in Posts |-> NoIndicator]
  /\ covers = [p \in Posts |-> <<>>]
  /\ page = {"c1", "a1"}
  /\ calls = [p \in Posts |-> NoCall]
  /\ passes = [p \in Posts |-> <<>>]
  /\ coverTasks = {}
  /\ unmuteTasks = {}
  /\ watchQueue = 0
  /\ invocations = 0
  /\ changes = 0
  /\ clicks = 0
  /\ failed = [p \in Posts |-> FALSE]

NextCache ==
  \/ \E n \in Posts, type \in {"childList", "attributes"} : Observer(n, type)
  \/ PollTick
  \/ \E p \in Posts, tag \in {"early", "late"} : Enter(p, tag, TRUE)
  \/ \E p \in Posts, i \in 1..2 : ReadCategories(p, i, TRUE)
  \/ \E p \in Posts, i \in 1..2 : Dwell(p, i)
  \/ \E task \in coverTasks : applyPostCover(task, TRUE)
  \/ \E t \in Cells : UnmuteRead(t)
  \/ \E u \in unmuteTasks : UnmuteWrite(u)

SpecCache == InitCache /\ [][NextCache]_vars

(***************************************************************************)
(* C14.  A pass that finds a fresh cache entry sends no request and renders *)
(* the cached decision: for shouldBlock the blocked indicator and the       *)
(* cover, otherwise no cover on the overlay target.                         *)
(***************************************************************************)
\* no pass waits for the answer to a categorization request
NoRequest ==
  \A p \in Posts : \A i \in 1..Len(passes[p]) : passes[p][i].pc # "response"

\* the step in which pass i on p uses its cache entry
HitStep(p, i) ==
  /\ i \in 1..Len(passes[p])
  /\ Len(passes'[p]) = Len(passes[p])
  /\ passes[p][i].pc = "categories"
  /\ passes'[p][i].pc = "dwell"

\* the step in which pass i on p, which used its cache entry, ends
RenderStep(p, i) ==
  /\ i \in 1..Len(passes[p])
  /\ passes[p][i].pc = "dwell"
  /\ passes[p][i].hit
  /\ passes'[p] = Without(passes[p], i)

\* a decision not to block leaves no cover on the overlay target; a
\* decision to block shows the blocked indicator and calls applyPostCover
RendersDecision ==
  \A p \in Posts : \A i \in 1..2 :
    LET entry == processedPosts[Fingerprint(platform, p)]
        t     == findBestOverlayTarget(p)
    IN  /\ HitStep(p, i) /\ ~entry.shouldBlock
             => existingCover(covers', t) = "none"
        /\ RenderStep(p, i) /\ ~entry.shouldBlock
             => /\ indicator'[existingIndicator(indicator', p)].status
                     \in {"processed", "filtered"}
                /\ coverTasks' = coverTasks
        /\ RenderStep(p, i) /\ entry.shouldBlock
             => /\ indicator'[existingIndicator(indicator', p)].status = "blocked"
                /\ \E task \in coverTasks' :
                     task.target = t /\ task.hash = Fingerprint(platform, p)

\* applyPostCover has run for the task
CoverStep(task) == task \in coverTasks /\ task \notin coverTasks'

FailStep(p, i) ==
  /\ i \in 1..Len(passes[p])
  /\ passes[p][i].pc = "response"
  /\ passes'[p] = Without(passes[p], i)

\* pass i on p returns before the cache is looked at
AbortStep(p, i) ==
  /\ i \in 1..Len(passes[p])
  /\ passes[p][i].pc = "categories"
  /\ passes'[p] = Without(passes[p], i)

C15_FailureTouchesOwnPostOnly ==
  [][ \A p \in Posts : \A i \in 1..2 :
        FailStep(p, i) \/ AbortStep(p, i)
          => /\ \A q \in Posts \ {p} :
                  /\ marker'[q] = marker[q]
                  /\ indicator'[q] = indicator[q]
                  /\ covers'[q] = covers[q]
             /\ \A h \in Hashes \ {Fingerprint(platform, p)} :
                  processedPosts'[h] = processedPosts[h] ]_vars

\* the case of C15: the pass on the article has ended and its indicator
\* shows the result, hidden by the class a failed pass on the cell put on it
C15_HiddenResult ==
  /\ passes["a1"] = <<>>
  /\ indicator["a1"].status \in FinalStatuses
  /\ indicator["a1"].unmuting
  /\ ~indicator["a1"].fade

(***************************************************************************)
(* Start-up: initializeExtension and verifyUserCategories.  Every storage   *)
(* call is an await that resolves or rejects.  What is stored under         *)
(* "user-categories" is any JSON value: nothing, a string, or an object     *)
(* whose include and exclude are an array, an object, a string or absent.   *)
(***************************************************************************)
CategoryArrays == { <<>>, <<W_POLITICS>>, <<W_SPORTS, W_TECH>> }

StoredFields ==
  {[kind |-> "array", items |-> a] : a \in CategoryArrays}
    \cup {[kind |-> "object"], [kind |-> "string"], [kind |-> "absent"]}

StoredValues ==
  {[kind |-> "absent"], [kind |-> "string"]}
    \cup {[kind |-> "object", include |-> i, exclude |-> e] :
            i \in StoredFields, e \in StoredFields}

\* lines 1538-1547: Array.isArray(field) ? field : field instanceof Set ?
\* Array.from(field) : []  (a Set is never read from storage)
NoArrays(field) == <<>>

Coerce(field) == IF field.kind = "array" THEN field.items ELSE <<>>

\* lines 1519-1548: the value read, or the defaults for a falsy one, with
\* both fields coerced; a string has no include and no exclude
Normalize(raw) ==
  IF raw.kind = "object"
    THEN [include |-> Coerce(raw.include), exclude |-> Coerce(raw.exclude)]
    ELSE [include |-> <<>>, exclude |-> <<>>]

\* JSON.parse(JSON.stringify(userCategories)) as storage.set stores it
Json(value) == StoredArrays(value.include, value.exclude)

InitVerify ==
  /\ decision = NoDecision
  /\ everUnmuted = {}
  /\ results = NoResults
  /\ debugObj = NoDebug
  /\ listener = ListenerOnce
  /\ sending = NoSending
  /\ hashing = NoHashing
  /\ reprocessed = {}
  /\ platform \in Platforms
  /\ stored \in StoredValues
  /\ initPc = "enabled"
  /\ resolved = Unresolved
  /\ viewport = {}
  /\ categoriesUpdatedDirty = FALSE
  /\ missed = {}
  /\ batch = -1
  /\ now = 0
  /\ enabled \in {"unset", "true", "false"}
  /\ userCategories = EmptyCategories
  /\ unmutedPosts = <<>>
  /\ processedPosts = [h \in Hashes |-> NoEntry]
  /\ lastCategoriesUpdate = 0
  /\ categoriesDirty = FALSE
  /\ marker = [p \in Posts |-> FALSE]
  /\ indicator = [p \in Posts |-> NoIndicator]
  /\ covers = [p \in Posts |-> <<>>]
  /\ page = {}
  /\ calls = [p \in Posts |-> NoCall]
  /\ passes = [p \in Posts |-> <<>>]
  /\ coverTasks = {}
  /\ unmuteTasks = {}
  /\ watchQueue = 0
  /\ invocations = 0
  /\ changes = 0
  /\ clicks = 0
  /\ failed = [p \in Posts |-> FALSE]

\* what no step of the start-up changes
StartupFrame ==
  UNCHANGED << decision, everUnmuted, reprocessed, platform, sending, hashing, viewport,
               categoriesUpdatedDirty, missed, batch, now, enabled,
               userCategories, unmutedPosts, processedPosts,
               lastCategoriesUpdate, categoriesDirty, marker, indicator,
               covers, page, calls, passes, coverTasks, unmuteTasks,
               watchQueue, invocations, changes, clicks, failed >>

\* lines 1594-1663: the reads of "enabled", "categories-updated", "apiKey"
\* and "user-categories" of initializeExtension, none inside a try; a
\* disabled filter returns after the third; behind the fourth,
\* initDebugUtils assigns window.__feedlyDebug
InitRead(readOk) ==
  /\ initPc \in {"enabled", "updated", "apiKey", "raw"}
  /\ initPc' = IF ~readOk THEN "failed"
               ELSE IF initPc = "enabled" THEN "updated"
               ELSE IF initPc = "updated" THEN "apiKey"
               ELSE IF initPc = "apiKey"
                 THEN IF enabled = "false" THEN "disabled" ELSE "raw"
               ELSE "verifyRead"
  /\ UNCHANGED << stored, resolved >>
  /\ debugObj' = IF readOk /\ initPc = "raw" THEN DebugNoCache ELSE debugObj
  /\ UNCHANGED << listener, results >>
  /\ StartupFrame

\* lines 1517-1522: the read of verifyUserCategories settles; a rejection
\* is caught
VerifyRead(readOk) ==
  /\ initPc = "verifyRead"
  /\ initPc' = IF readOk THEN "verifyWrite" ELSE "catchWrite"
  /\ resolved' = IF readOk
                   THEN [via |-> "none", include |-> Normalize(stored).include,
                         exclude |-> Normalize(stored).exclude]
                   ELSE Unresolved
  /\ UNCHANGED stored
  /\ UNCHANGED << listener, debugObj, results >>
  /\ StartupFrame

\* lines 1569-1575: the write of the normalized value settles; a rejection
\* is caught
VerifyWrite(writeOk) ==
  /\ initPc = "verifyWrite"
  /\ IF writeOk
       THEN /\ stored' = Json(resolved)
            /\ resolved' = [resolved EXCEPT !.via = "return"]
            /\ initPc' = "mounted"
       ELSE /\ initPc' = "catchWrite"
            /\ resolved' = Unresolved
            /\ UNCHANGED stored
  /\ UNCHANGED << listener, debugObj, results >>
  /\ StartupFrame

\* lines 1576-1582: the write of the defaults in the catch block settles; a
\* rejection leaves verifyUserCategories, and initializeExtension with it
CatchWrite(writeOk) ==
  /\ initPc = "catchWrite"
  /\ IF writeOk
       THEN /\ stored' = StoredArrays(<<>>, <<>>)
            /\ resolved' = [via |-> "catch", include |-> <<>>, exclude |-> <<>>]
            /\ initPc' = "mounted"
       ELSE /\ initPc' = "rejected"
            /\ UNCHANGED << stored, resolved >>
  /\ UNCHANGED << listener, debugObj, results >>
  /\ StartupFrame

\* lines 1666-1693: the React root is rendered and the interval finds it:
\* startObserving is called
Mount ==
  /\ initPc = "mounted"
  /\ initPc' = "observing"
  /\ UNCHANGED << stored, resolved >>
  /\ UNCHANGED << listener, debugObj, results >>
  /\ StartupFrame

\* the page is loaded again: the content script starts from its first
\* line, in a new window object, and calls initializeMessageListener
Reload ==
  /\ initPc \in {"observing", "rejected", "failed", "disabled"}
  /\ initPc' = "enabled"
  /\ resolved' = Unresolved
  /\ UNCHANGED stored
  /\ listener' = ListenerOnce
  /\ debugObj' = NoDebug
  /\ results' = NoResults
  /\ StartupFrame

NextVerify ==
  \/ \E ok \in BOOLEAN : InitRead(ok)
  \/ \E ok \in BOOLEAN : VerifyRead(ok)
  \/ \E ok \in BOOLEAN : VerifyWrite(ok)
  \/ \E ok \in BOOLEAN : CatchWrite(ok)
  \/ Mount
  \/ Reload

SpecVerify == InitVerify /\ [][NextVerify]_vars

(***************************************************************************)
(* C16.  A storage call that fails while verifyUserCategories runs does not *)
(* keep the start-up from going on: verifyUserCategories resolves with the  *)
(* defaults, and initializeExtension is never left by that failure.         *)
(***************************************************************************)
C16_VerifyNeverRejects ==
  /\ initPc # "rejected"
  /\ resolved.via = "catch" => resolved.include = <<>> /\ resolved.exclude = <<>>

\* the case of C16: the read of verifyUserCategories was rejected, the
\* defaults were written, and observation has started
C16_RecoveredOnce ==
  /\ initPc = "observing"
  /\ resolved.via = "catch"

(***************************************************************************)
(* C17.  When verifyUserCategories returns from its try block, it resolves  *)
(* with the stored arrays, an empty array in the place of anything else,    *)
(* and has written that value back; a run on the value it has written       *)
(* writes the same value again.                                             *)
(***************************************************************************)
\* the array the claim asks for
ArrayOf(raw, name) ==
  IF raw.kind = "object" /\ raw[name].kind = "array"
    THEN raw[name].items ELSE <<>>

\* the write of the try block succeeds
WriteBackStep == initPc = "verifyWrite" /\ initPc' = "mounted"

Members(arr) == {arr[i] : i \in 1..Len(arr)}

\* the standard categories of the keys that are among the categories
StandardOfKeys(categories) ==
  {categoryVariations[k][2] :
     k \in {j \in 1..Len(categoryVariations) :
              categoryVariations[j][1] \in Members(categories)}}

C18_KeysOnly ==
  decision.done
    => LET categories == MapUpper(decision.response)
       IN  /\ Members(decision.categories)
                = Members(categories) \cup StandardOfKeys(categories)
           /\ SubSeq(decision.categories, 1, Len(categories)) = categories

\* the case of C18: a returned category that is a key of the map has been
\* normalized, and its standard category is in the list behind it
C18_KeyExpanded ==
  /\ decision.done
  /\ decision.response = <<W_SPORT>>
  /\ decision.categories = <<W_SPORT, W_SPORTS>>

(***************************************************************************)
(* A pass that blocks, end to end: posts are handed over by the initial     *)
(* batch, every storage read resolves and every request is answered.        *)
(***************************************************************************)
\* the exclude lists of this scenario
BlockLists ==
  { <<W_POLITICS>>, <<w_politics>>, <<W_SPORTS>>, <<W_TECH>>,
    <<W_POLITICS, W_SPORTS>>, <<W_SPORTS, W_POLITICS>> }

\* PostCover lines 113-114: the tags a cover shows
displayCategories(cover) ==
  IF Len(cover.matched) > 0 THEN cover.matched
  ELSE SubSeq(cover.categories, 1,
              IF Len(cover.categories) < 3 THEN Len(cover.categories) ELSE 3)

InitBlock ==
  /\ decision = NoDecision
  /\ everUnmuted = {}
  /\ results = NoResults
  /\ debugObj = DebugNoCache
  /\ listener = ListenerOnce
  /\ sending = NoSending
  /\ hashing = NoHashing
  /\ reprocessed = {}
  /\ platform \in Platforms
  /\ viewport = {"c1", "a1", "c2"}
  /\ categoriesUpdatedDirty = FALSE
  /\ missed = {}
  /\ batch = 0
  /\ Started
  /\ now = 0
  /\ enabled = "true"
  /\ \E exc \in BlockLists : userCategories = [include |-> <<>>, exclude |-> exc]
  /\ unmutedPosts \in {<<>>, <<"h2">>}
  /\ processedPosts = [h \in Hashes |-> NoEntry]
  /\ lastCategoriesUpdate = 0
  /\ categoriesDirty = FALSE
  /\ marker = [p \in Posts |-> FALSE]
  /\ indicator = [p \in Posts |-> NoIndicator]
  /\ covers = [p \in Posts |-> <<>>]
  /\ page = {"c1", "a1", "c2"}
  /\ calls = [p \in Posts |-> NoCall]
  /\ passes = [p \in Posts |-> <<>>]
  /\ coverTasks = {}
  /\ unmuteTasks = {}
  /\ watchQueue = 0
  /\ invocations = 0
  /\ changes = 0
  /\ clicks = 0
  /\ failed = [p \in Posts |-> FALSE]

NextBlock ==
  \/ processBatch
  \/ \E p \in Posts, tag \in {"early", "late"} : Enter(p, tag, TRUE)
  \/ \E p \in Posts, i \in 1..2 : ReadCategories(p, i, TRUE)
  \/ \E p \in Posts, i \in 1..2, at \in 0..MaxTime :
       Response(p, i, "delivered", "ok", at)
  \/ \E p \in Posts, i \in 1..2 : Dwell(p, i)
  \/ \E task \in coverTasks : applyPostCover(task, TRUE)

\* a promise that can settle settles, and a timer that is due fires
SpecBlock == InitBlock /\ [][NextBlock]_vars /\ WF_vars(NextBlock)

(***************************************************************************)
(* C19.  With filtering enabled, an exclude list that contains X, a post    *)
(* that is not unmuted and carries no cover, and a response whose           *)
(* categories include X in some letter case, the pass ends with a cache     *)
(* entry that says shouldBlock, the indicator "blocked", and a cover on the *)
(* overlay target that shows X as matched tag.                              *)
(***************************************************************************)
\* the categories the background answers with for p
ResponseCategories(p) ==
  handler(HasText(platform, p), "ok", ModelCategories(Fingerprint(platform, p)))

\* a pass on p waits for such a response, with X in the exclude list it read
BlockCase(p, X) ==
  /\ enabled = "true"
  /\ ~IsUnmuted(unmutedPosts, Fingerprint(platform, p))
  /\ existingCover(covers, p) = "none"
  /\ \E i \in 1..Len(passes[p]) :
       /\ passes[p][i].pc = "response"
       /\ ArrIncludes(passes[p][i].uc.exclude, X)
  /\ \E k \in 1..Len(ResponseCategories(p)) :
       ToUpper(ResponseCategories(p)[k]) = ToUpper(X)

\* the post is cached as blocked, shows "blocked" and its overlay target
\* carries a cover with tag X
BlockedWithTag(p, X) ==
  LET entry == processedPosts[Fingerprint(platform, p)]
      first == existingIndicator(indicator, p)
      t     == findBestOverlayTarget(p)
  IN  /\ entry.present /\ entry.shouldBlock
      /\ first # "none" /\ indicator[first].status = "blocked"
      /\ \E k \in 1..Len(covers[t]) :
           ArrIncludes(displayCategories(covers[t][k]), ToUpper(X))

C19_BlockedWithMatchedTag ==
  \A p \in {"c1", "a1", "c2"} : \A X \in {W_POLITICS, W_SPORTS, w_politics} :
    BlockCase(p, X) ~> BlockedWithTag(p, X)

\* the case of C19: a post answered with POLITICS and SPORTS under an
\* exclude list that holds both is covered
C19_TwoMatches ==
  /\ userCategories.exclude = <<W_POLITICS, W_SPORTS>>
  /\ processedPosts["h2"].present
  /\ processedPosts["h2"].shouldBlock
  /\ indicator["c2"].status = "blocked"
  /\ covers["c2"] # <<>>

(***************************************************************************)
(* createPostHash on its own: two post data, each fingerprinted once.       *)
(***************************************************************************)
\* the number of characters of the text that go into the fingerprint
HashChars == 150

\* a text of n characters "x"
Xs(n) == [i \in 1..n |-> "x"]

\* the texts of this scenario: short ones, and texts around HashChars
\* characters that differ at, before and behind that position
HashTexts ==
  { <<>>, Xs(1), Xs(HashChars - 1), Xs(HashChars),
    Xs(HashChars - 1) \o <<"y">>,
    Xs(HashChars) \o <<"x">>, Xs(HashChars) \o <<"y">>,
    Xs(HashChars) \o <<"y", "-", "x">> }

\* PostData: actorName and text are optional strings, categories and tldr
\* ride along
PostDatas ==
  { [hasActor |-> ha, actorName |-> an, hasText |-> ht, text |-> tx,
     categories |-> cats, tldr |-> tl] :
      ha \in BOOLEAN, an \in {<<>>, <<"A">>, <<"A", "-">>},
      ht \in BOOLEAN, tx \in HashTexts,
      cats \in {<<>>, <<W_POLITICS>>}, tl \in {<<>>, <<"t">>} }

\* the data an absent field stands for: one value per meaning
WellFormed(data) ==
  /\ ~data.hasActor => data.actorName = <<>>
  /\ ~data.hasText => data.text = <<>>
  /\ data.tldr = (IF data.categories = <<>> THEN <<>> ELSE <<"t">>)

\* String.prototype.slice(0, n)
Slice(s, n) == SubSeq(s, 1, IF Len(s) < n THEN Len(s) ELSE n)

\* a fingerprint made of the whole text
HashOfWholeText(data) ==
  (IF data.hasActor THEN data.actorName ELSE <<>>) \o <<"-">>
    \o (IF data.hasText THEN data.text ELSE <<>>)

\* lines 76-85: `${data.actorName || ""}-${data.text?.slice(0, 150) || ""}`;
\* an absent field and an empty string both give the empty string
createPostHash(data) ==
  (IF data.hasActor THEN data.actorName ELSE <<>>) \o <<"-">>
    \o (IF data.hasText THEN Slice(data.text, HashChars) ELSE <<>>)

InitHash ==
  /\ decision = NoDecision
  /\ everUnmuted = {}
  /\ results = NoResults
  /\ debugObj = DebugNoCache
  /\ listener = ListenerOnce
  /\ sending = NoSending
  /\ \E a \in PostDatas, b \in PostDatas :
       /\ WellFormed(a) /\ WellFormed(b)
       /\ hashing = [state |-> "data", a |-> a, b |-> b,
                     doneA |-> FALSE, doneB |-> FALSE,
                     hashA |-> <<>>, hashB |-> <<>>]
  /\ reprocessed = {}
  /\ platform = "TWITTER"
  /\ viewport = {}
  /\ categoriesUpdatedDirty = FALSE
  /\ missed = {}
  /\ batch = -1
  /\ Started
  /\ now = 0
  /\ enabled = "true"
  /\ userCategories = InitialCategories
  /\ unmutedPosts = <<>>
  /\ processedPosts = [h \in Hashes |-> NoEntry]
  /\ lastCategoriesUpdate = 0
  /\ categoriesDirty = FALSE
  /\ marker = [p \in Posts |-> FALSE]
  /\ indicator = [p \in Posts |-> NoIndicator]
  /\ covers = [p \in Posts |-> <<>>]
  /\ page = {}
  /\ calls = [p \in Posts |-> NoCall]
  /\ passes = [p \in Posts |-> <<>>]
  /\ coverTasks = {}
  /\ unmuteTasks = {}
  /\ watchQueue = 0
  /\ invocations = 0
  /\ changes = 0
  /\ clicks = 0
  /\ failed = [p \in Posts |-> FALSE]

\* what no step of createPostHash touches
HashFrame ==
  UNCHANGED << decision, everUnmuted, reprocessed, platform, results, debugObj, listener, sending, stored, initPc,
               resolved, viewport, categoriesUpdatedDirty, missed, batch, now,
               enabled, userCategories, unmutedPosts, processedPosts,
               lastCategoriesUpdate, categoriesDirty, marker, indicator,
               covers, page, calls, passes, coverTasks, unmuteTasks,
               watchQueue, invocations, changes, clicks, failed >>

\* createPostHash is called on the first post data
HashFirst ==
  /\ hashing.state = "data"
  /\ ~hashing.doneA
  /\ hashing' = [hashing EXCEPT !.doneA = TRUE,
                                !.hashA = createPostHash(hashing.a)]
  /\ HashFrame

\* createPostHash is called on the second post data
HashSecond ==
  /\ hashing.state = "data"
  /\ ~hashing.doneB
  /\ hashing' = [hashing EXCEPT !.doneB = TRUE,
                                !.hashB = createPostHash(hashing.b)]
  /\ HashFrame

NextHash == HashFirst \/ HashSecond

SpecHash == InitHash /\ [][NextHash]_vars

(***************************************************************************)
(* C21.  Two posts with the same author name and the same first 150         *)
(* characters of text get the same fingerprint, whatever the rest of their  *)
(* text and whatever their categories and tldr.                             *)
(***************************************************************************)
\* the author name of the data, none being the empty name
AuthorName(data) == IF data.hasActor THEN data.actorName ELSE <<>>

\* the first 150 characters of the text of the data, none being no text
FirstChars(data) ==
  IF data.hasText
    THEN [i \in 1..(IF Len(data.text) < 150 THEN Len(data.text) ELSE 150)
            |-> data.text[i]]
    ELSE <<>>

C21_SameHeadSameHash ==
  (hashing.state = "data" /\ hashing.doneA /\ hashing.doneB
     /\ AuthorName(hashing.a) = AuthorName(hashing.b)
     /\ FirstChars(hashing.a) = FirstChars(hashing.b))
    => hashing.hashA = hashing.hashB

\* the case of C21: two fingerprinted posts of one author whose texts
\* differ behind the 150th character and whose categories differ
C21_TailsDiffer ==
  /\ hashing.state = "data" /\ hashing.doneA /\ hashing.doneB
  /\ hashing.a.actorName = <<"A">> /\ hashing.b.actorName = <<"A">>
  /\ Len(hashing.a.text) > 150 /\ Len(hashing.b.text) > 150
  /\ hashing.a.text # hashing.b.text
  /\ hashing.a.categories # hashing.b.categories
  /\ FirstChars(hashing.a) = FirstChars(hashing.b)
  /\ hashing.hashA = hashing.hashB

(***************************************************************************)
(* safeSendToBackground on its own: one call, and the caller's              *)
(* response.categories.map behind it.                                       *)
(***************************************************************************)
\* the value of a categories property
NoCats == [kind |-> "absent", items |-> <<>>]
ArrayCats(items) == [kind |-> "array", items |-> items]

\* what sendToBackground can do: reject, resolve with undefined or null,
\* with an object that has no categories or categories that are no array,
\* or with the answer of the handler
BackgroundResults ==
  { [kind |-> k, cats |-> NoCats, hasTldr |-> FALSE] :
      k \in {"throws", "undefined", "null"} }
  \cup { [kind |-> "object", cats |-> [kind |-> ck, items |-> <<>>],
          hasTldr |-> t] :
            ck \in {"absent", "string", "object", "null"}, t \in BOOLEAN }
  \cup { [kind |-> "object",
          cats |-> ArrayCats(handler(hasText, o, ModelCategories(h))),
          hasTldr |-> TRUE] :
            hasText \in BOOLEAN, o \in RemoteOutcomes, h \in Hashes }

\* the texts and outcomes behind the calls of this scenario
SendInputs ==
  { [result |-> r, hasText |-> hasText, outcome |-> o, hash |-> h] :
      r \in BackgroundResults, hasText \in BOOLEAN, o \in RemoteOutcomes,
      h \in Hashes }

\* the input is one the program can see: an answer of the handler is the
\* answer to this text, and a failure is told of one text only
SendInput(x) ==
  IF x.result.kind = "object" /\ x.result.cats.kind = "array"
    THEN x.result.cats.items = handler(x.hasText, x.outcome, ModelCategories(x.hash))
    ELSE x.hasText /\ x.outcome = "ok" /\ x.hash = "h1"

\* part_006 lines 11-47: what safeSendToBackground resolves with
safeSendToBackground(response) ==
  IF response.kind = "throws"
    THEN [kind |-> "object", cats |-> ArrayCats(<<W_ERROR>>), hasTldr |-> TRUE]
  ELSE IF response.kind \in {"undefined", "null"}
    THEN [kind |-> "null", cats |-> NoCats, hasTldr |-> FALSE]
  ELSE IF response.cats.kind # "array"
    THEN [response EXCEPT !.cats = ArrayCats(<<W_ERROR>>), !.hasTldr = TRUE]
  ELSE response

InitSend ==
  /\ decision = NoDecision
  /\ everUnmuted = {}
  /\ results = NoResults
  /\ debugObj = DebugNoCache
  /\ listener = ListenerOnce
  /\ hashing = NoHashing
  /\ \E x \in SendInputs :
       /\ SendInput(x)
       /\ sending = [state |-> "called", input |-> x,
                     response |-> [kind |-> "null", cats |-> NoCats,
                                   hasTldr |-> FALSE],
                     mapped |-> "no"]
  /\ reprocessed = {}
  /\ platform = "TWITTER"
  /\ viewport = {}
  /\ categoriesUpdatedDirty = FALSE
  /\ missed = {}
  /\ batch = -1
  /\ Started
  /\ now = 0
  /\ enabled = "true"
  /\ userCategories = InitialCategories
  /\ unmutedPosts = <<>>
  /\ processedPosts = [h \in Hashes |-> NoEntry]
  /\ lastCategoriesUpdate = 0
  /\ categoriesDirty = FALSE
  /\ marker = [p \in Posts |-> FALSE]
  /\ indicator = [p \in Posts |-> NoIndicator]
  /\ covers = [p \in Posts |-> <<>>]
  /\ page = {}
  /\ calls = [p \in Posts |-> NoCall]
  /\ passes = [p \in Posts |-> <<>>]
  /\ coverTasks = {}
  /\ unmuteTasks = {}
  /\ watchQueue = 0
  /\ invocations = 0
  /\ changes = 0
  /\ clicks = 0
  /\ failed = [p \in Posts |-> FALSE]

\* what no step of the call touches
SendFrame ==
  UNCHANGED << decision, everUnmuted, reprocessed, platform, results, debugObj, listener, hashing, stored,
               initPc, resolved, viewport, categoriesUpdatedDirty, missed,
               batch, now, enabled, userCategories, unmutedPosts,
               processedPosts, lastCategoriesUpdate, categoriesDirty, marker,
               indicator, covers, page, calls, passes, coverTasks,
               unmuteTasks, watchQueue, invocations, changes, clicks, failed >>

\* sendToBackground settles and safeSendToBackground resolves
SendSettles ==
  /\ sending.state = "called"
  /\ sending' = [sending EXCEPT
                   !.state = "resolved",
                   !.response = safeSendToBackground(sending.input.result)]
  /\ SendFrame

\* part_006 lines 55-68: the caller calls response.categories.map, which
\* throws a TypeError on null and on categories that are no array
CallerMaps ==
  /\ sending.state = "resolved"
  /\ sending' = [sending EXCEPT
                   !.state = "used",
                   !.mapped = IF sending.response.kind = "object"
                                 /\ sending.response.cats.kind = "array"
                                THEN "ok" ELSE "TypeError"]
  /\ SendFrame

NextSend == SendSettles \/ CallerMaps

SpecSend == InitSend /\ [][NextSend]_vars

(***************************************************************************)
(* C22.  safeSendToBackground always resolves with an object that has a     *)
(* categories array, whatever sendToBackground resolves with or throws, so  *)
(* that the caller's response.categories.map needs no further check.        *)
(***************************************************************************)
C22_AlwaysCategoriesArray ==
  /\ sending.state \in {"resolved", "used"}
       => /\ sending.response.kind = "object"
          /\ sending.response.cats.kind = "array"
  /\ sending.state = "used" => sending.mapped = "ok"

\* the case of C22: sendToBackground has rejected, and the caller has
\* mapped over the categories it was given in place of an answer
C22_RejectionRepaired ==
  /\ sending.state = "used"
  /\ sending.input.result.kind = "throws"
  /\ sending.response.cats = ArrayCats(<<W_ERROR>>)
  /\ sending.mapped = "ok"

(***************************************************************************)
(* Covered posts under a category change: a covered tweet and a covered     *)
(* cell, a change of user-categories, and the passes reprocessVisiblePosts  *)
(* starts, with every storage read resolving and every request answered.    *)
(***************************************************************************)
\* what the event loop does without the user
RecoverStep ==
  \/ \E t \in 0..MaxTime : WatchFire(t)
  \/ \E p \in Posts, tag \in {"early", "late"} : Enter(p, tag, TRUE)
  \/ \E p \in Posts, i \in 1..2 : ReadCategories(p, i, TRUE)
  \/ \E p \in Posts, i \in 1..2, at \in 0..MaxTime :
       Response(p, i, "delivered", "ok", at)
  \/ \E p \in Posts, i \in 1..2 : Dwell(p, i)
  \/ \E task \in coverTasks : applyPostCover(task, TRUE)

NextRecover ==
  \/ \E new \in CategoryChoices : SaveCategories(new)
  \/ RecoverStep

\* the page after the first passes under InitialCategories: the tweet c1
\* with its article a1 and the cell c2 are cached as blocked and covered,
\* the indicator of the tweet sits in its article
InitRecover ==
  /\ decision = NoDecision
  /\ everUnmuted = {}
  /\ results = NoResults
  /\ debugObj = DebugNoCache
  /\ listener = ListenerOnce
  /\ sending = NoSending
  /\ hashing = NoHashing
  /\ reprocessed = {}
  /\ platform = "TWITTER"
  /\ Started
  /\ now = 0
  /\ enabled = "true"
  /\ userCategories = InitialCategories
  /\ unmutedPosts = <<>>
  /\ processedPosts = [h \in Hashes |->
       IF h \in {"h1", "h2"} THEN CoveredEntry(h) ELSE NoEntry]
  /\ lastCategoriesUpdate = 0
  /\ categoriesDirty = FALSE
  /\ marker = [p \in Posts |-> FALSE]
  /\ indicator = [p \in Posts |->
       IF p \in {"a1", "c2"} THEN [status |-> "blocked", fade |-> FALSE,
                                    unmuting |-> FALSE]
       ELSE NoIndicator]
  /\ covers = [p \in Posts |->
       IF p \in Cells THEN <<CoverOf(Fingerprint("TWITTER", p))>> ELSE <<>>]
  /\ page = {"c1", "a1", "c2"}
  /\ viewport = page
  /\ categoriesUpdatedDirty = FALSE
  /\ missed = {}
  /\ batch = -1
  /\ calls = [p \in Posts |-> NoCall]
  /\ passes = [p \in Posts |-> <<>>]
  /\ coverTasks = {}
  /\ unmuteTasks = {}
  /\ watchQueue = 0
  /\ invocations = MaxInvocations
  /\ changes = 0
  /\ clicks = 0
  /\ failed = [p \in Posts |-> FALSE]

SpecRecover == InitRecover /\ [][NextRecover]_vars /\ WF_vars(RecoverStep)

(***************************************************************************)
(* C23.  A post that carries a cover and is reprocessed after a category    *)
(* change under which it is no longer to be blocked loses its cover, and    *)
(* its indicator becomes processed or filtered.                             *)
(***************************************************************************)
\* the decision the categories in force imply for p
BlocksNow(p) ==
  shouldBlock(userCategories, Enhanced[HasText(platform, p)][Fingerprint(platform, p)]["ok"])

\* the category change has handed the covered post p to processPost, and
\* the categories in force do not block it
CoveredToFree(p) ==
  /\ p \in reprocessed
  /\ Pending(p) > 0
  /\ existingCover(covers, p) # "none"
  /\ ~BlocksNow(p)

\* p holds no cover and shows processed or filtered
Uncovered(p) ==
  /\ existingCover(covers, p) = "none"
  /\ existingIndicator(indicator, p) # "none"
  /\ indicator[existingIndicator(indicator, p)].status \in {"processed", "filtered"}

C23_CoverRemovedOnReprocess ==
  \A p \in Cells : CoveredToFree(p) ~> Uncovered(p)

\* the case of C23: the exclude list was emptied, the covered tweets were
\* reprocessed and every pass has ended
C23_ReprocessedCovered ==
  /\ userCategories = EmptyCategories
  /\ Cells \subseteq reprocessed
  /\ watchQueue = 0
  /\ \A p \in Cells : Pending(p) = 0 /\ passes[p] = <<>>
  /\ existingCover(covers, "c2") # "none"

(***************************************************************************)
(* From the first line of the content script to the first results: the      *)
(* start-up, the initial batch and the passes it starts, with every storage *)
(* call resolving and every request answered.                               *)
(***************************************************************************)
InitDefault ==
  /\ decision = NoDecision
  /\ everUnmuted = {}
  /\ results = NoResults
  /\ debugObj = NoDebug
  /\ listener = ListenerOnce
  /\ sending = NoSending
  /\ hashing = NoHashing
  /\ reprocessed = {}
  /\ platform \in Platforms
  /\ stored = StoredArrays(InitialCategories.include, InitialCategories.exclude)
  /\ initPc = "enabled"
  /\ resolved = Unresolved
  /\ viewport = {"c1", "a1", "c2"}
  /\ categoriesUpdatedDirty = FALSE
  /\ missed = {}
  /\ batch = 0
  /\ now = 0
  /\ enabled \in {"unset", "true", "false"}
  /\ userCategories = InitialCategories
  /\ unmutedPosts = <<>>
  /\ processedPosts = [h \in Hashes |-> NoEntry]
  /\ lastCategoriesUpdate = 0
  /\ categoriesDirty = FALSE
  /\ marker = [p \in Posts |-> FALSE]
  /\ indicator = [p \in Posts |-> NoIndicator]
  /\ covers = [p \in Posts |-> <<>>]
  /\ page = {"c1", "a1", "c2"}
  /\ calls = [p \in Posts |-> NoCall]
  /\ passes = [p \in Posts |-> <<>>]
  /\ coverTasks = {}
  /\ unmuteTasks = {}
  /\ watchQueue = 0
  /\ invocations = 0
  /\ changes = 0
  /\ clicks = 0
  /\ failed = [p \in Posts |-> FALSE]

\* lines 1440-1483: startObserving runs the initial batch
ObserveBatch == initPc = "observing" /\ processBatch

NextDefault ==
  \/ InitRead(TRUE)
  \/ VerifyRead(TRUE)
  \/ VerifyWrite(TRUE)
  \/ Mount
  \/ ObserveBatch
  \/ \E p \in Posts, tag \in {"early", "late"} : Enter(p, tag, TRUE)
  \/ \E p \in Posts, i \in 1..2 : ReadCategories(p, i, TRUE)
  \/ \E p \in Posts, i \in 1..2, at \in 0..MaxTime :
       Response(p, i, "delivered", "ok", at)
  \/ \E p \in Posts, i \in 1..2 : Dwell(p, i)
  \/ \E task \in coverTasks : applyPostCover(task, TRUE)

\* a promise that can settle settles, and a timer that is due fires
SpecDefault == InitDefault /\ [][NextDefault]_vars /\ WF_vars(NextDefault)

(***************************************************************************)
(* C24.  When the key "enabled" was never written, filtering is active as   *)
(* it is under enabled = true: initializeExtension starts observation, and  *)
(* processPost processes the posts it is called on.                         *)
(***************************************************************************)
\* observation has started and a post of the page has got its decision
FilteringActive ==
  /\ initPc = "observing"
  /\ \E p \in page : Cached(p)

C24_UnsetMeansEnabled ==
  (enabled = "unset" /\ initPc = "enabled") ~> FilteringActive

\* the case of C24: with the key unset, observation has started and the
\* initial batch has called processPost on every post of the page
C24_ObservingUnset ==
  /\ enabled = "unset"
  /\ initPc = "observing"
  /\ batch = -1
  /\ \A p \in page : Pending(p) = 0 /\ ~marker[p]

(***************************************************************************)
(* C25.  After a categorization, matchedCategories is exactly the set of    *)
(* exclude entries, upper-cased, that equal some normalized category, and   *)
(* it is non-empty if and only if shouldBlock is true.                      *)
(***************************************************************************)
\* the exclude entries, upper-cased, that equal a category of the list
EntriesMatching(exclude, categories) ==
  {ToUpper(exclude[k]) :
     k \in {j \in 1..Len(exclude) :
              \E i \in 1..Len(categories) :
                ToUpper(categories[i]) = ToUpper(exclude[j])}}

C25_MatchedIsAllMatches ==
  decision.done
    => /\ Members(decision.matched)
            = EntriesMatching(decision.uc.exclude, decision.categories)
       /\ (decision.matched # <<>>) <=> decision.shouldBlock

\* the case of C25: a decision under an exclude list of two entries of
\* which the second alone matches
C25_SecondEntryMatches ==
  /\ decision.done
  /\ decision.uc.exclude = <<W_TECH, W_SPORTS>>
  /\ decision.response = <<W_SPORTS>>
  /\ decision.matched = <<W_SPORTS>>
  /\ decision.shouldBlock

(***************************************************************************)
(* Messages from the background: the listener of listener.ts, the handler   *)
(* of categorization-result, the debug object, and the place where          *)
(* processPost takes its response from.                                     *)
(***************************************************************************)
\* a guard that never takes the listener for initialized
NeverInitialized(l) == FALSE

\* listener.ts line 17: if (isInitialized) return
AlreadyInitialized(l) == l.isInitialized

\* listener.ts lines 77-87: initializeDebugCache gives the debug object a
\* categorizeCache if there is a debug object and it has none
initializeDebugCache(d) ==
  IF d.defined /\ ~d.hasCache THEN [d EXCEPT !.hasCache = TRUE] ELSE d

\* listener.ts lines 15-72: initializeMessageListener is called
initializeMessageListener ==
  /\ listener.calls < MaxListenerCalls
  /\ IF AlreadyInitialized(listener)
       THEN /\ listener' = [listener EXCEPT !.calls = @ + 1]
            /\ UNCHANGED debugObj
       ELSE /\ listener' = [listener EXCEPT !.isInitialized = TRUE,
                                            !.registered = @ + 1,
                                            !.defaults = @ + 1,
                                            !.calls = @ + 1]
            /\ debugObj' = initializeDebugCache(debugObj)
  /\ UNCHANGED << results, stored, initPc, resolved >>
  /\ StartupFrame

\* listener.ts lines 92-95: resetListener
resetListener ==
  /\ listener.resets < MaxResets
  /\ listener' = [listener EXCEPT !.isInitialized = FALSE, !.resets = @ + 1]
  /\ UNCHANGED << debugObj, results, stored, initPc, resolved >>
  /\ StartupFrame

\* the data of a categorization-result message: a postHash or none, and
\* categories or none
MessageHashes == {"h1", "h2", "h3", "none"}
MessageCategories == {<<>>, <<W_SPORTS>>, <<w_politics>>}

\* part_007 lines 117-133: what handleCategorizationResult stores
StoredResult(cats) ==
  [present |-> TRUE, categories |-> IF cats = <<>> THEN <<W_ERROR>> ELSE cats]

\* listener.ts lines 26-60 and part_007 lines 117-133: a message
\* {type: "from-background", action: "categorization-result"} arrives; each
\* registered listener calls the handler, which stores under data.postHash
\* if the debug object has a categorizeCache
handleCategorizationResult(h, cats) ==
  /\ listener.registered > 0
  /\ listener.defaults > 0
  /\ debugObj' = IF h # "none" /\ debugObj.defined /\ debugObj.hasCache
                   THEN [debugObj EXCEPT !.cache[h] = StoredResult(cats)]
                   ELSE debugObj
  /\ results' = IF h # "none"
                  THEN [results EXCEPT ![h] =
                          [delivered |-> initPc \in {"mounted", "observing"},
                           categories |-> StoredResult(cats).categories,
                           source |-> "none"]]
                  ELSE results
  /\ UNCHANGED << listener, stored, initPc, resolved >>
  /\ StartupFrame

\* social-post-blocker.tsx lines 1084-1111: processPost, for a post with
\* fingerprint h, takes its response from categorizeCache if the debug
\* object has one that holds h, and sends the request otherwise
TakeResponse(h) ==
  /\ initPc = "observing"
  /\ results' = [results EXCEPT ![h].source =
                   IF debugObj.defined /\ debugObj.hasCache
                        /\ debugObj.cache[h].present
                     THEN "cache" ELSE "background"]
  /\ UNCHANGED << listener, debugObj, stored, initPc, resolved >>
  /\ StartupFrame

InitMessages ==
  /\ InitDefault
  /\ platform = "TWITTER"
  /\ enabled = "true"

NextMessages ==
  \/ InitRead(TRUE)
  \/ VerifyRead(TRUE)
  \/ VerifyWrite(TRUE)
  \/ Mount
  \/ Reload
  \/ initializeMessageListener
  \/ resetListener
  \/ \E h \in MessageHashes, cats \in MessageCategories :
       handleCategorizationResult(h, cats)
  \/ \E h \in Hashes : TakeResponse(h)

SpecMessages == InitMessages /\ [][NextMessages]_vars

(***************************************************************************)
(* C26.  After initializeExtension has run, a categorization-result message *)
(* that carries postHash h has its result stored in categorizeCache under   *)
(* h, and a processPost that follows for a post with fingerprint h takes    *)
(* that result and sends no request to the background.                      *)
(***************************************************************************)
C26_ResultCachedAndUsed ==
  \A h \in Hashes :
    results[h].delivered
      => /\ debugObj.defined /\ debugObj.hasCache
         /\ debugObj.cache[h].present
         /\ debugObj.cache[h].categories = results[h].categories
         /\ results[h].source \in {"none", "cache"}

\* the case of C26: after the start-up a message for h1 was handled, and
\* processPost has taken its response for h1 since
C26_MessageThenPost ==
  /\ initPc = "observing"
  /\ listener.resets = 0
  /\ results["h1"].delivered
  /\ results["h1"].source # "none"

(***************************************************************************)
(* C27.  However often initializeMessageListener is called, the onMessage   *)
(* listener is registered once: every call after the first returns without  *)
(* registering a listener or the handlers again.                            *)
(***************************************************************************)
C27_RegisteredOnce ==
  /\ [](listener.resets = 0 => listener.registered = 1 /\ listener.defaults = 1)
  /\ [][ (listener'.calls > listener.calls /\ listener.resets = 0)
           => /\ listener'.registered = listener.registered
              /\ listener'.defaults = listener.defaults
              /\ debugObj' = debugObj ]_vars

\* the case of C27: initializeMessageListener was called three times and
\* never reset
C27_CalledAgain ==
  /\ listener.calls = 3
  /\ listener.resets = 0
  /\ listener.registered = 1

(***************************************************************************)
(* C28.  A cache entry with processedAt >= lastCategoriesUpdate holds the   *)
(* decision that the user categories in force since the last change give:   *)
(* a pass that read the categories before the change and finished after it  *)
(* leaves no entry that later passes take for fresh.  Stated for the        *)
(* entries stamped later than the change, so that it does not rest on two   *)
(* events of the same millisecond.                                          *)
(***************************************************************************)
\* the entry of h was stamped after the last change: ReadCategories takes
\* it for fresh
FreshEntry(h) ==
  /\ processedPosts[h].present
  /\ processedPosts[h].processedAt > lastCategoriesUpdate

C28_FreshEntriesAreCurrent ==
  watchQueue = 0
    => \A h \in Hashes :
         FreshEntry(h)
           => processedPosts[h].shouldBlock
                = shouldBlock(userCategories, processedPosts[h].categories)

\* the case of C28: a category change was delivered while a pass was
\* waiting for its response, and the pass has written its entry since
C28_FinishedAfterChange ==
  /\ changes > 0
  /\ watchQueue = 0
  /\ lastCategoriesUpdate = 0
  /\ FreshEntry("h1")
  /\ processedPosts["h1"].processedAt = 1
  /\ processedPosts["h1"].shouldBlock
  /\ ~shouldBlock(userCategories, processedPosts["h1"].categories)

(***************************************************************************)
(* C29.  However the unmutes of different covered posts interleave, every   *)
(* fingerprint whose unmute has completed is in the stored unmutedPosts     *)
(* list afterwards: no unmute overwrites another.                           *)
(***************************************************************************)
C29_NoUnmuteLost ==
  \A h \in everUnmuted : ArrIncludes(unmutedPosts, h)

\* the case of C29: the unmutes of both covered posts have completed, one
\* after the other, and the list holds both fingerprints
C29_BothUnmuted ==
  /\ everUnmuted = {"h1", "h2"}
  /\ unmuteTasks = {}
  /\ ArrIncludes(unmutedPosts, "h1")
  /\ ArrIncludes(unmutedPosts, "h2")

(***************************************************************************)
(* C30.  However the passes interleave, two containers with one overlay     *)
(* target included, an overlay target never holds more than one cover       *)
(* element.                                                                 *)
(***************************************************************************)
\* the cover elements inside t: those of its descendants and its own
RECURSIVE CoversFrom(_, _)
CoversFrom(k, t) ==
  IF k > Len(Subtree(t)) THEN 0
  ELSE Len(covers[Subtree(t)[k]]) + CoversFrom(k + 1, t)

====
